---- MODULE Spec2Model ----
(***************************************************************************)
(* Matching and caching pipeline of worker-uz (apps/api/src/modules/       *)
(* matching): the single-flight cache protocol of MatchingCacheService,    *)
(* the recalculation orchestrator of MatchingService and the batch         *)
(* recalculation of MatchingRepository.                                    *)
(*                                                                         *)
(* The model follows one worker subject (worker 1) and one vacancy subject *)
(* (vacancy 1).  The cache keys are "worker:1" and "vacancy:1".  A         *)
(* MatchScore row is abstracted to the logical time of its last upsert     *)
(* (ver): the number of recalculation runs started when it was written.    *)
(* A cached list is the sequence of the row summaries it was built from;   *)
(* the cachedAt stamp of a summary is not modelled.                        *)
(***************************************************************************)
EXTENDS Integers, Sequences, FiniteSets, TLC

\* ------------------------------------------------------------------ bounds
NumCallers == 2
MaxClock == 2
SmallPop == 1
MaxPop == 450
MaxChanges == 2
FirstYear == 2024
KeptPop == 2
MaxList == 52
ShortLen == 3
MaxAdds == 3

\* ------------------------------------------------------- program constants
CACHE_LIMIT == 50
LOCK_MAX_RETRIES == 5
BATCH_SIZE == 200
CONCURRENCY_LIMIT == 20
MIN_SCORE_THRESHOLD == 70
MAX_RETRIES == 3
RETRY_DELAY == 5000
CONCURRENCY == 2
EnforcedPageCap == 200
TopLimit == 50

Callers == 1..NumCallers
Keys == {"worker:1", "vacancy:1"}
Dirs == {"worker", "vacancy"}
NoOwner == 0
NoEntry == [present |-> FALSE, list |-> <<>>]
SubjectId == 1
NoInFlight == [n |-> 0, ids |-> {}, more |-> 0, ver |-> 0, year |-> 0]
NoScore == [absent |-> TRUE]

KeyOf(d) == IF d = "worker" THEN "worker:1" ELSE "vacancy:1"
DirOf(k) == IF k = "worker:1" THEN "worker" ELSE "vacancy"

VARIABLES
  cache,      \* redis: key -> cached list or NoEntry
  lock,       \* redis: lock:key -> owner token or NoOwner
  rows,       \* MatchScore rows of the pairs with ids up to SmallPop:
              \* <<workerId, vacancyId>> -> ver (0 = no row)
  clock,      \* number of recalculation runs started so far
  vacancies,  \* OPEN vacancies, ordered by publishedAt desc
  workers,    \* ACTIVE worker profiles, ordered by createdAt desc
  vacancyExists, \* whether vacancy 1 is found by getVacancy
  recommended, \* pairs whose computed score has isRecommended = true
  pc,         \* caller -> position inside getOrSet*Cache
  ckey,       \* caller -> cache key of its call
  attempts,   \* caller -> loop counter `attempts` (0 once the call returned)
  matches,    \* caller -> local `matches` (empty once the call returned)
  result,     \* caller -> returned list
  hist,       \* caller -> history record of the call
  keyhist,    \* key -> whether an entry of the key was deleted or ran out
  rpc,        \* direction -> position inside recalcFor*
  rpage,      \* direction -> local `page`
  rtotal,     \* direction -> local `totalCalculated`
  rbatch,     \* direction -> local `batchCount`
  ritems,     \* direction -> ids of the page last fetched
  rgen,       \* direction -> clock value at the start of the current run
  rreq,       \* direction -> sizes of the pages requested by the current run
  rsnap,      \* direction -> the cache as it was when the current run began
  doneGen,    \* direction -> rgen of the last run that returned
  boff,       \* direction -> recalculateBatchFor*: ids of the batch handed
              \* to the chunks started so far
  bsum,       \* direction -> recalculateBatchFor*: local `totalCalculated`
  binfl,      \* direction -> upserts of the current chunk: how many were
              \* started (n), which are not settled (ids: those of the pairs
              \* kept in rows, more: how many others), content written (ver)
  bfailed,    \* direction -> whether an upsert of the current run failed
  now,        \* the calendar year, new Date().getFullYear()
  wdata,      \* skills, experience, education and profile of worker 1
  vdata,      \* vacancy 1 and its skills
  workerExists, \* whether worker 1 exists
  stored,     \* score components of the MatchScore row of pair (1, 1)
  cres,       \* how the last calculateScore(1, 1) call ended
  audit,      \* number of MATCH_SCORE_CALCULATED audit events
  first,      \* score components after the first calculateScore(1, 1)
              \* that wrote the row, and the year of that call
  lastUp,     \* pair -> ver of the upsert of the pair that completed last
  sinput,     \* the list handed to setWorkerMatches / setVacancyMatches
  rseen,      \* direction -> ids of all the pages the current run fetched
  ropen,      \* direction -> members of the population that have been
              \* OPEN / ACTIVE ever since the current run began
  nchg,       \* number of members that entered or left a population
  jobs,       \* bullmq: job id -> job of the matching queue, or NoJob
  nqadd,      \* number of queue.add calls made so far
  nadds,      \* number of addRecalc*Job calls made so far
  apc,        \* caller -> position inside addRecalc*Job
  akind,      \* caller -> "worker" (addRecalcWorkerJob) or "vacancy"
  afound,     \* caller -> local `existingJob` (whether a job was found)
  ares        \* caller -> job id the call returned

cvars == <<pc, ckey, attempts, matches, result, hist>>
rvars == <<rpc, rpage, rtotal, rbatch, ritems, rgen, rreq, rsnap, doneGen>>
popvars == <<vacancies, workers, vacancyExists, recommended>>
bvars == <<boff, bsum, binfl, bfailed>>
svars == <<now, wdata, vdata, workerExists, stored, cres, audit, first, lastUp>>
hvars == <<rseen, ropen, nchg>>
tvars == <<sinput, hvars>>
qvars == <<jobs, nqadd, nadds, apc, akind, afound, ares>>
zvars == <<tvars, qvars>>
xvars == <<bvars, svars, zvars>>
vars == <<cache, lock, rows, clock, keyhist, cvars, rvars, popvars, xvars>>

Min(a, b) == IF a < b THEN a ELSE b
Max(a, b) == IF a > b THEN a ELSE b
Range(s) == {s[i] : i \in 1..Len(s)}
Iota(n) == [i \in 1..n |-> i]

\* ------------------------------------------------------------ MatchScore
Pairs(nw, nv) == ({SubjectId} \X (1..nv)) \cup ((1..nw) \X {SubjectId})

\* the total score of the row of a pair, as far as the lists need it: the
\* threshold for a pair that is recommended, 0 for any other
TotalScoreOf(p) == IF p \in recommended THEN MIN_SCORE_THRESHOLD ELSE 0

\* rows of one subject as summaries, in id order
RECURSIVE RowList(_, _, _, _, _)
RowList(r, d, i, n, only) ==
  IF i > n THEN <<>>
  ELSE LET p == IF d = "worker" THEN <<SubjectId, i>> ELSE <<i, SubjectId>>
       IN (IF p \in DOMAIN r /\ r[p] > 0 /\ p \in only
             THEN <<[workerId |-> p[1], vacancyId |-> p[2], ver |-> r[p],
                     totalScore |-> TotalScoreOf(p)]>>
             ELSE <<>>) \o RowList(r, d, i + 1, n, only)

Take(s, n) == SubSeq(s, 1, Min(Len(s), n))

\* one step of the stable sort: m goes behind the records whose totalScore
\* is not below its own
RECURSIVE InsertByTotalScore(_, _)
InsertByTotalScore(sorted, m) ==
  IF sorted = <<>> THEN <<m>>
  ELSE IF Head(sorted).totalScore >= m.totalScore
    THEN <<Head(sorted)>> \o InsertByTotalScore(Tail(sorted), m)
  ELSE <<m>> \o sorted

\* [...matches].sort((a, b) => b.totalScore - a.totalScore), and
\* orderBy: { totalScore: 'desc' }
RECURSIVE SortByTotalScore(_)
SortByTotalScore(list) ==
  IF list = <<>> THEN <<>>
  ELSE InsertByTotalScore(SortByTotalScore(SubSeq(list, 1, Len(list) - 1)),
                          list[Len(list)])

\* MatchingRepository.getWorkerMatches(workerId, 50)
RepoGetWorkerMatches(r, nv) ==
  Take(SortByTotalScore(RowList(r, "worker", 1, nv, DOMAIN r)), TopLimit)
\* MatchingRepository.getRecommendedMatches(vacancyId, 50)
RepoGetRecommendedMatches(r, nw) ==
  Take(SortByTotalScore(RowList(r, "vacancy", 1, nw, recommended)), TopLimit)

\* the fetcher closures of getRecommendedMatches / getVacancyRecommendations
Fetcher(k) ==
  IF k = "worker:1" THEN RepoGetWorkerMatches(rows, Len(vacancies))
  ELSE RepoGetRecommendedMatches(rows, Len(workers))

\* ------------------------------------------------------------- scoring
\* Scores are exact rationals [n, d] in lowest terms with d > 0 (the code
\* computes them in double precision).
\* The arithmetic is by functions, which take their arguments by value.
Rats == [n : Int, d : Nat]
Gcd[a \in Nat, b \in Nat] == IF b = 0 THEN a ELSE Gcd[b, a % b]
Abs(a) == IF a < 0 THEN -a ELSE a
Rat[n \in Int, d \in Nat] ==
  [n |-> n \div Gcd[Abs(n), d], d |-> d \div Gcd[Abs(n), d]]
RatAdd[a \in Rats, b \in Rats] == Rat[a.n * b.d + b.n * a.d, a.d * b.d]
RatSub[a \in Rats, b \in Rats] == Rat[a.n * b.d - b.n * a.d, a.d * b.d]
RatTimes[a \in Rats, k \in Int] == Rat[a.n * k, a.d]
RatOver[a \in Rats, k \in Nat] == Rat[a.n, a.d * k]
RatLess[a \in Rats, b \in Rats] == a.n * b.d < b.n * a.d
RatMax[a \in Rats, b \in Rats] == IF RatLess[a, b] THEN b ELSE a
\* Math.round(x): the integer nearest to x, halves upwards
MathRound[a \in Rats] == (2 * a.n + a.d) \div (2 * a.d)
\* Math.round(x * 100) / 100
Round2[a \in Rats] == Rat[MathRound[RatTimes[a, 100]], 100]

EducationLevels ==
  <<"HIGH_SCHOOL", "DIPLOMA", "BACHELOR", "MASTER", "DOCTORATE">>
\* Array.prototype.indexOf, zero-based, -1 when absent
IndexOf(seq, x) ==
  IF \E i \in 1..Len(seq) : seq[i] = x
    THEN (CHOOSE i \in 1..Len(seq) : seq[i] = x) - 1
    ELSE -1
\* String.prototype.toLowerCase on the city and state names of the model
ToLowerCase(str) ==
  IF str = "Tashkent" THEN "tashkent" ELSE IF str = "TAS" THEN "tas" ELSE str

\* reduce((sum, exp) => sum + ((exp.endYear || year) - (exp.startYear || 0)))
RECURSIVE TotalYears(_, _)
TotalYears(exps, year) ==
  IF exps = <<>> THEN 0
  ELSE (IF Head(exps).endYear # 0 THEN Head(exps).endYear ELSE year)
       - Head(exps).startYear + TotalYears(Tail(exps), year)

\* workerSkills.filter(ws => vacancySkills.some(vs => same skillCode)).length
MatchedSkills(w, v) ==
  Cardinality({i \in 1..Len(w.skills) : w.skills[i] \in v.skills})

\* MatchingService.calculateSkillScore
CalculateSkillScore(w, v) ==
  IF Cardinality(v.required) = 0 THEN Rat[100, 1]
  ELSE IF Cardinality(v.skills) = 0 THEN Rat[50, 1]
  ELSE LET matchRatio == Rat[MatchedSkills(w, v), Cardinality(v.required)]
           capped == IF RatLess[Rat[1, 1], matchRatio] THEN Rat[1, 1]
                     ELSE matchRatio
       IN Rat[MathRound[RatTimes[capped, 100 * 100]], 100]

\* MatchingService.calculateExperienceScore
CalculateExperienceScore(w, v, year) ==
  LET minYears == v.experienceMinYears
      maxYears == IF v.experienceMaxYears # 0 THEN v.experienceMaxYears
                  ELSE minYears + 10
      totalYears == TotalYears(w.experience, year)
  IN IF minYears = 0 /\ maxYears = 0 THEN Rat[100, 1]
     ELSE IF totalYears >= minYears /\ totalYears <= maxYears
       THEN Rat[100, 1]
     ELSE IF totalYears < minYears
       THEN RatMax[Rat[0, 1],
                   RatSub[Rat[100, 1],
                          RatTimes[Rat[minYears - totalYears, minYears], 100]]]
     ELSE RatMax[Rat[0, 1],
                 RatSub[Rat[100, 1],
                        RatTimes[Rat[totalYears - maxYears, maxYears], 100]]]

\* an education score that grows with the audit events written so far
CalculateEducationScoreByAudit(w, v) == Rat[audit, 1]

\* calculateEducationScore (the same in service and repository)
CalculateEducationScore(w, v) ==
  LET vacancyLevelIndex == IndexOf(EducationLevels, v.educationMinLevel) IN
    IF v.educationMinLevel = "" THEN Rat[50, 1]
    ELSE IF vacancyLevelIndex = -1 THEN Rat[50, 1]
    ELSE IF \E i \in 1..Len(w.education) :
              IndexOf(EducationLevels, w.education[i]) >= vacancyLevelIndex
      THEN Rat[100, 1]
    ELSE RatMax[Rat[0, 1], Rat[100 - vacancyLevelIndex * 25, 1]]

\* calculateLocationScore (the same in service and repository); a missing
\* profile, city or state is ""
CalculateLocationScore(w, v) ==
  IF v.locationCity = "" \/ w.city = "" THEN Rat[50, 1]
  ELSE IF ToLowerCase(w.city) = ToLowerCase(v.locationCity) THEN Rat[100, 1]
  ELSE IF w.state # "" /\ v.locationState # ""
          /\ ToLowerCase(w.state) = ToLowerCase(v.locationState)
    THEN Rat[70, 1]
  ELSE IF v.isRemote THEN Rat[90, 1]
  ELSE Rat[30, 1]

\* Decimal | null of salaryMin / salaryMax: -1 stands for null
ToNumberOr(x, dflt) == IF x = -1 \/ x = 0 THEN dflt ELSE x

\* MatchingService.calculateSalaryScore
CalculateSalaryScore(w, v) ==
  IF v.salaryMin = -1 /\ v.salaryMax = -1 THEN Rat[50, 1]
  ELSE IF v.salaryIsNegotiable THEN Rat[80, 1]
  ELSE LET salaryMin == ToNumberOr(v.salaryMin, 0)
           salaryMax == ToNumberOr(v.salaryMax, salaryMin * 2)
           midPoint == Rat[salaryMin + salaryMax, 2]
           deviation == RatOver[midPoint, 2]
           distance == Rat[Abs(midPoint.n), midPoint.d]
       IN IF salaryMin = 0 /\ salaryMax = 0 THEN Rat[50, 1]
          ELSE IF deviation.n = 0 THEN Rat[100, 1]
          ELSE LET deviationPercent ==
                     Rat[distance.n * deviation.d, distance.d * deviation.n]
               IN RatMax[Rat[0, 1],
                         Rat[MathRound[RatTimes[RatSub[Rat[1, 1],
                                                       deviationPercent],
                                                100 * 100]], 100]]

\* a total that weighs the skill score by 0.50
WeightedTotalSkillHalf(skill, experience, education, location, salary) ==
  Round2[RatOver[RatAdd[RatTimes[skill, 50],
                 RatAdd[RatTimes[experience, 25],
                 RatAdd[RatTimes[education, 15],
                 RatAdd[RatTimes[location, 10], RatTimes[salary, 10]]]]], 100]]

\* Math.round((skill * 0.40 + experience * 0.25 + education * 0.15
\*             + location * 0.10 + salary * 0.10) * 100) / 100
WeightedTotal(skill, experience, education, location, salary) ==
  Round2[RatOver[RatAdd[RatTimes[skill, 40],
                 RatAdd[RatTimes[experience, 25],
                 RatAdd[RatTimes[education, 15],
                 RatAdd[RatTimes[location, 10], RatTimes[salary, 10]]]]], 100]]

\* a flag that is set from a total score of 60
IsRecommendedFromSixty(totalScore) == ~RatLess[totalScore, Rat[60, 1]]

\* const isRecommended = totalScore >= MIN_SCORE_THRESHOLD
IsRecommended(totalScore) ==
  ~RatLess[totalScore, Rat[MIN_SCORE_THRESHOLD, 1]]

\* MatchingService.computeScore
ComputeScore(w, v, year) ==
  LET skillScore == CalculateSkillScore(w, v)
      experienceScore == CalculateExperienceScore(w, v, year)
      educationScore == CalculateEducationScore(w, v)
      locationScore == CalculateLocationScore(w, v)
      salaryScore == CalculateSalaryScore(w, v)
      totalScore == WeightedTotal(skillScore, experienceScore, educationScore,
                                  locationScore, salaryScore)
  IN [skillScore |-> skillScore, experienceScore |-> experienceScore,
      educationScore |-> educationScore, locationScore |-> locationScore,
      salaryScore |-> salaryScore, totalScore |-> totalScore,
      skillMatchCount |-> MatchedSkills(w, v),
      skillRequiredCount |-> Cardinality(v.required),
      isRecommended |-> IsRecommended(totalScore)]

\* MatchingRepository.calculateSkillScore
RepoCalculateSkillScore(w, v) ==
  IF Cardinality(v.skills) = 0 THEN Rat[50, 1]
  ELSE Rat[MathRound[RatTimes[Rat[MatchedSkills(w, v), Cardinality(v.skills)],
                              100 * 100]], 100]

\* MatchingRepository.calculateExperienceScore
RepoCalculateExperienceScore(w, v, year) ==
  LET totalYears == TotalYears(w.experience, year) IN
    IF v.experienceMinYears = 0 /\ v.experienceMaxYears = 0 THEN Rat[50, 1]
    ELSE IF v.experienceMinYears # 0 /\ totalYears < v.experienceMinYears
      THEN Rat[Max(0, 100 - (v.experienceMinYears - totalYears) * 10), 1]
    ELSE IF v.experienceMaxYears # 0 /\ totalYears > v.experienceMaxYears
      THEN Rat[Max(0, 100 - (totalYears - v.experienceMaxYears) * 5), 1]
    ELSE Rat[100, 1]

\* MatchingRepository.calculateSalaryScore
RepoCalculateSalaryScore(w, v) ==
  IF v.salaryMin = -1 /\ v.salaryMax = -1 THEN Rat[50, 1]
  ELSE LET expectedMin == ToNumberOr(v.salaryMin, 0)
           expectedMax == ToNumberOr(v.salaryMax, expectedMin * 2)
       IN IF expectedMin = 0 /\ expectedMax = 0 THEN Rat[50, 1]
          ELSE Rat[80, 1]

\* MatchingRepository.calculateScoreComponents
CalculateScoreComponents(w, v, year) ==
  LET skillScore == RepoCalculateSkillScore(w, v)
      experienceScore == RepoCalculateExperienceScore(w, v, year)
      educationScore == CalculateEducationScore(w, v)
      locationScore == CalculateLocationScore(w, v)
      salaryScore == RepoCalculateSalaryScore(w, v)
      totalScore == WeightedTotal(skillScore, experienceScore, educationScore,
                                  locationScore, salaryScore)
      matchedRequired ==
        Cardinality({i \in 1..Len(w.skills) : w.skills[i] \in v.required})
  IN [skillScore |-> skillScore, experienceScore |-> experienceScore,
      educationScore |-> educationScore, locationScore |-> locationScore,
      salaryScore |-> salaryScore, totalScore |-> totalScore,
      skillMatchCount |-> MatchedSkills(w, v),
      skillRequiredCount |-> Cardinality(v.required),
      isRecommended |-> /\ ~RatLess[totalScore, Rat[70, 1]]
                        /\ 2 * matchedRequired >= Cardinality(v.required)]

\* ------------------------------------------------- MatchingCacheService
\* a GET under a key nobody writes: always null
GetMatchesWrongKey(k) == NoEntry

\* getWorkerMatches / getVacancyMatches: redis GET, null when absent
GetMatches(k) == cache[k]

\* a write that stores an empty list as well
SetMatchesEmptyToo(k, m) ==
  [cache EXCEPT ![k] =
     [present |-> TRUE, list |-> Take(SortByTotalScore(m), CACHE_LIMIT)]]

\* a write that cuts the list without sorting it
SetMatchesUnsorted(k, m) ==
  IF Len(m) = 0 THEN cache
  ELSE [cache EXCEPT ![k] = [present |-> TRUE, list |-> Take(m, CACHE_LIMIT)]]

\* setWorkerMatches / setVacancyMatches: nothing for an empty list, else
\* SETEX of the list sorted by totalScore desc and cut to CACHE_LIMIT
SetMatches(k, m) ==
  IF Len(m) = 0 THEN cache
  ELSE [cache EXCEPT ![k] =
          [present |-> TRUE,
           list |-> Take(SortByTotalScore(m), CACHE_LIMIT)]]

\* setWorkerMatches(1, sinput) / setVacancyMatches(1, sinput) is called
SetMatchesCall(k) ==
  /\ cache' = SetMatches(k, sinput)
  /\ cache' # cache
  /\ UNCHANGED <<lock, rows, clock, keyhist, cvars, rvars, popvars, xvars>>

\* SET without NX: the token of the holder is overwritten
AcquireLockNoNX(k, owner) ==
  [store |-> [lock EXCEPT ![k] = owner], ok |-> TRUE]

\* SET NX whose reply is not compared with 'OK'
AcquireLockAnyReply(k, owner) ==
  IF lock[k] = NoOwner
    THEN [store |-> [lock EXCEPT ![k] = owner], ok |-> TRUE]
    ELSE [store |-> lock, ok |-> TRUE]

\* acquireLock: SET lock:key owner EX 10 NX
\* (store: the lock store afterwards, ok: result === 'OK')
AcquireLock(k, owner) ==
  IF lock[k] = NoOwner
    THEN [store |-> [lock EXCEPT ![k] = owner], ok |-> TRUE]
    ELSE [store |-> lock, ok |-> FALSE]

\* a release by plain DEL
ReleaseLockBlind(k, owner) == [lock EXCEPT ![k] = NoOwner]

\* releaseLock: the compare-and-delete script
ReleaseLock(k, owner) ==
  IF lock[k] = owner THEN [lock EXCEPT ![k] = NoOwner] ELSE lock

\* the caller is between its successful acquireLock and its releaseLock
InSection(c) == pc[c] \in {"dbl", "fetch", "set", "release"}

\* history of one call: successful acquisitions, cache reads that found an
\* entry, fetcher runs under the lock and after the loop, cache writes,
\* lock creations and deletions, doneGen of its subject when it began,
\* whether its lease ran out while it was between acquire and release, and
\* whether its release found the token of another owner
NoHist ==
  [acq |-> 0, hits |-> 0, fetchL |-> 0, fetchFB |-> 0, wrote |-> 0,
   lockops |-> 0, need |-> 0, lost |-> FALSE, stale |-> FALSE]

\* a call of getRecommendedMatches / getVacancyRecommendations begins: the
\* owner token is fresh (uuidv4), modelled by the caller's number
Start(c) ==
  /\ pc[c] = "idle"
  /\ hist' = [hist EXCEPT ![c].need = doneGen[DirOf(ckey[c])]]
  /\ pc' = [pc EXCEPT ![c] = "get"]
  /\ UNCHANGED <<cache, lock, rows, clock, keyhist, ckey, attempts, matches,
                 result, rvars, popvars, xvars>>

\* const cached = await this.getWorkerMatches(id); if (cached) return cached
GetInitial(c) ==
  /\ pc[c] = "get"
  /\ LET got == GetMatches(ckey[c]) IN
       IF got.present
         THEN /\ pc' = [pc EXCEPT ![c] = "done"]
              /\ result' = [result EXCEPT ![c] = got.list]
              /\ hist' = [hist EXCEPT ![c].hits = @ + 1]
              /\ attempts' = [attempts EXCEPT ![c] = 0]
         ELSE /\ pc' = [pc EXCEPT ![c] = "acquire"]
              /\ attempts' = [attempts EXCEPT ![c] = 0]
              /\ UNCHANGED hist
              /\ UNCHANGED result
  /\ UNCHANGED <<cache, lock, rows, clock, keyhist, ckey, matches, rvars,
                 popvars, xvars>>

\* const lockAcquired = await this.acquireLock(key, owner)
TryAcquire(c) ==
  /\ pc[c] = "acquire"
  /\ lock' = AcquireLock(ckey[c], c).store
  /\ IF AcquireLock(ckey[c], c).ok
       THEN /\ pc' = [pc EXCEPT ![c] = "dbl"]
            /\ hist' = [hist EXCEPT ![c].acq = @ + 1, ![c].lockops = @ + 1]
       ELSE /\ pc' = [pc EXCEPT ![c] = "retry"]
            /\ UNCHANGED hist
  /\ UNCHANGED <<cache, rows, clock, keyhist, ckey, attempts, matches, result,
                 rvars, popvars, xvars>>

\* a holder of the lock that fetches without the second read
DoubleCheckSkipped(c) ==
  /\ pc[c] = "dbl"
  /\ pc' = [pc EXCEPT ![c] = "fetch"]
  /\ UNCHANGED <<cache, lock, rows, clock, keyhist, ckey, attempts, matches,
                 result, hist, rvars, popvars, xvars>>

\* const doubleCheck = await this.getWorkerMatches(id);
\* if (doubleCheck) return doubleCheck   -- through the finally block
DoubleCheck(c) ==
  /\ pc[c] = "dbl"
  /\ LET got == GetMatches(ckey[c]) IN
       IF got.present
         THEN /\ pc' = [pc EXCEPT ![c] = "release"]
              /\ result' = [result EXCEPT ![c] = got.list]
              /\ hist' = [hist EXCEPT ![c].hits = @ + 1]
         ELSE /\ pc' = [pc EXCEPT ![c] = "fetch"]
              /\ UNCHANGED hist
              /\ UNCHANGED result
  /\ UNCHANGED <<cache, lock, rows, clock, keyhist, ckey, attempts, matches,
                 rvars, popvars, xvars>>

\* const matches = await fetcher()   -- holding the lock
FetchLocked(c) ==
  /\ pc[c] = "fetch"
  /\ matches' = [matches EXCEPT ![c] = Fetcher(ckey[c])]
  /\ hist' = [hist EXCEPT ![c].fetchL = @ + 1]
  /\ pc' = [pc EXCEPT ![c] = "set"]
  /\ UNCHANGED <<cache, lock, rows, clock, keyhist, ckey, attempts, result,
                 rvars, popvars, xvars>>

\* await this.setWorkerMatches(id, matches); return matches
Populate(c) ==
  /\ pc[c] = "set"
  /\ cache' = SetMatches(ckey[c], matches[c])
  /\ result' = [result EXCEPT ![c] = matches[c]]
  /\ hist' = [hist EXCEPT ![c].wrote = IF cache' # cache THEN @ + 1 ELSE @]
  /\ pc' = [pc EXCEPT ![c] = "release"]
  /\ UNCHANGED <<lock, rows, clock, keyhist, ckey, attempts, matches, rvars,
                 popvars, xvars>>

\* a return that leaves the lock to its lease
ReleaseForgotten(c) ==
  /\ pc[c] = "release"
  /\ pc' = [pc EXCEPT ![c] = "done"]
  /\ attempts' = [attempts EXCEPT ![c] = 0]
  /\ matches' = [matches EXCEPT ![c] = <<>>]
  /\ UNCHANGED <<cache, lock, rows, clock, keyhist, ckey, result, hist, rvars,
                 popvars, xvars>>

\* finally { await this.releaseLock(key, owner) }
Release(c) ==
  /\ pc[c] = "release"
  /\ lock' = ReleaseLock(ckey[c], c)
  /\ hist' = [hist EXCEPT ![c].lockops = IF lock' # lock THEN @ + 1 ELSE @,
                          ![c].stale = lock[ckey[c]] \notin {NoOwner, c}]
  /\ pc' = [pc EXCEPT ![c] = "done"]
  /\ attempts' = [attempts EXCEPT ![c] = 0]
  /\ matches' = [matches EXCEPT ![c] = <<>>]
  /\ UNCHANGED <<cache, rows, clock, keyhist, ckey, result, rvars, popvars, xvars>>

\* the loop test after attempts++, off by one: attempts <= LOCK_MAX_RETRIES
LoopContinuesInclusive(n) == n <= LOCK_MAX_RETRIES

\* the loop test: attempts < LOCK_MAX_RETRIES
LoopContinues(n) == n < LOCK_MAX_RETRIES

\* await this.sleep(LOCK_RETRY_DELAY); const retryCached = await get...;
\* if (retryCached) return retryCached; attempts++ and the loop test
RetryCheck(c) ==
  /\ pc[c] = "retry"
  /\ LET got == GetMatches(ckey[c]) IN
       IF got.present
         THEN /\ pc' = [pc EXCEPT ![c] = "done"]
              /\ result' = [result EXCEPT ![c] = got.list]
              /\ hist' = [hist EXCEPT ![c].hits = @ + 1]
              /\ attempts' = [attempts EXCEPT ![c] = 0]
         ELSE /\ attempts' = [attempts EXCEPT ![c] = @ + 1]
              /\ pc' = [pc EXCEPT ![c] =
                   IF LoopContinues(attempts[c] + 1)
                     THEN "acquire" ELSE "fallback"]
              /\ UNCHANGED hist
              /\ UNCHANGED result
  /\ UNCHANGED <<cache, lock, rows, clock, keyhist, ckey, matches, rvars,
                 popvars, xvars>>

\* a fallback that stores what it fetched
FallbackCaching(c) ==
  /\ pc[c] = "fallback"
  /\ result' = [result EXCEPT ![c] = Fetcher(ckey[c])]
  /\ cache' = SetMatches(ckey[c], Fetcher(ckey[c]))
  /\ hist' = [hist EXCEPT ![c].fetchFB = @ + 1,
                          ![c].wrote = IF cache' # cache THEN @ + 1 ELSE @]
  /\ pc' = [pc EXCEPT ![c] = "done"]
  /\ attempts' = [attempts EXCEPT ![c] = 0]
  /\ UNCHANGED <<lock, rows, clock, keyhist, ckey, matches, rvars, popvars, xvars>>

\* return await fetcher()   -- after the loop
Fallback(c) ==
  /\ pc[c] = "fallback"
  /\ result' = [result EXCEPT ![c] = Fetcher(ckey[c])]
  /\ hist' = [hist EXCEPT ![c].fetchFB = @ + 1]
  /\ pc' = [pc EXCEPT ![c] = "done"]
  /\ attempts' = [attempts EXCEPT ![c] = 0]
  /\ UNCHANGED <<cache, lock, rows, clock, keyhist, ckey, matches, rvars,
                 popvars, xvars>>

\* the EX 10 lease of a lock runs out
LockExpire(k) ==
  /\ lock[k] # NoOwner
  /\ lock' = [lock EXCEPT ![k] = NoOwner]
  /\ hist' = [c \in Callers |->
               IF c = lock[k] THEN [hist[c] EXCEPT !.lost = TRUE] ELSE hist[c]]
  /\ UNCHANGED <<cache, rows, clock, keyhist, pc, ckey, attempts, matches,
                 result, rvars, popvars, xvars>>

\* the SETEX 600 time-to-live of an entry runs out
CacheExpire(k) ==
  /\ cache[k].present
  /\ cache' = [cache EXCEPT ![k] = NoEntry]
  /\ keyhist' = [keyhist EXCEPT ![k] = TRUE]
  /\ UNCHANGED <<lock, rows, clock, cvars, rvars, popvars, xvars>>

\* ---------------------------------------------- the redis store fails
\* a redis command of the call rejects (the store cannot be reached):
\* outside the try block the error leaves getOrSet*Cache at once; inside it
\* the finally block runs releaseLock first; a rejected releaseLock leaves
\* the lock to its lease
StoreFails(c) ==
  /\ pc[c] \in {"get", "acquire", "retry", "dbl", "set", "release"}
  /\ pc' = [pc EXCEPT ![c] = IF pc[c] \in {"dbl", "set"}
                               THEN "unwind" ELSE "threw"]
  /\ attempts' = [attempts EXCEPT ![c] =
                    IF pc[c] \in {"dbl", "set"} THEN @ ELSE 0]
  /\ matches' = [matches EXCEPT ![c] = <<>>]
  /\ UNCHANGED <<cache, lock, rows, clock, keyhist, ckey, result, hist,
                 rvars, popvars, xvars>>

\* finally { await this.releaseLock(key, owner) } with the error pending:
\* the script runs, or rejects as well; the call ends with an error
UnwindRelease(c) ==
  /\ pc[c] = "unwind"
  /\ \E reached \in BOOLEAN :
       lock' = IF reached THEN ReleaseLock(ckey[c], c) ELSE lock
  /\ hist' = [hist EXCEPT ![c].lockops = IF lock' # lock THEN @ + 1 ELSE @]
  /\ pc' = [pc EXCEPT ![c] = "threw"]
  /\ attempts' = [attempts EXCEPT ![c] = 0]
  /\ UNCHANGED <<cache, rows, clock, keyhist, ckey, matches, result, rvars,
                 popvars, xvars>>

\* the finally block with the error pending, its releaseLock executed
UnwindReleased(c) ==
  UnwindRelease(c) /\ lock' = ReleaseLock(ckey[c], c)

\* await this.setWorkerMatches(id, matches) rejects
CacheWriteThrows(c) == pc[c] = "set" /\ StoreFails(c)

\* await fetcher() rejects (the database query fails): under the lock the
\* finally block runs next, after the loop the error leaves the call
FetcherThrows(c) ==
  /\ pc[c] \in {"fetch", "fallback"}
  /\ pc' = [pc EXCEPT ![c] = IF pc[c] = "fetch" THEN "unwind" ELSE "threw"]
  /\ attempts' = [attempts EXCEPT ![c] = IF pc[c] = "fetch" THEN @ ELSE 0]
  /\ UNCHANGED <<cache, lock, rows, clock, keyhist, ckey, matches, result,
                 hist, rvars, popvars, xvars>>

\* ------------------------------------- MatchingService / MatchingRepository
Population(d) == IF d = "worker" THEN vacancies ELSE workers

\* a page query that skips page * pageSize rows
PageOfSkipOffByOne(list, page, pageSize) ==
  LET enforcedPageSize == Min(pageSize, EnforcedPageCap)
      skip == page * enforcedPageSize
  IN SubSeq(list, skip + 1, Min(skip + enforcedPageSize, Len(list)))

\* getActiveVacanciesForWorker / getActiveWorkersForVacancy: skip/take page
PageOf(list, page, pageSize) ==
  LET enforcedPageSize == Min(pageSize, EnforcedPageCap)
      skip == (page - 1) * enforcedPageSize
  IN SubSeq(list, skip + 1, Min(skip + enforcedPageSize, Len(list)))

\* ids of a batch that recalculateBatchFor* computes and upserts:
\* recalculateBatchForWorker skips ids missing from vacancyMap,
\* recalculateBatchForVacancy returns 0 when the vacancy is missing
BatchFound(d, ids) ==
  IF d = "worker" THEN Range(ids) \cap Range(vacancies)
  ELSE IF vacancyExists THEN Range(ids) ELSE {}

BatchPair(d, i) == IF d = "worker" THEN <<SubjectId, i>> ELSE <<i, SubjectId>>

\* an upsert that only creates: an existing row is kept as it is
UpsertCreateOnly(r, p, ver) ==
  IF r[p] = 0 THEN [r EXCEPT ![p] = ver] ELSE r

\* upsertMatchScore: prisma upsert under the key workerId_vacancyId
UpsertMatchScore(r, p, ver) == [r EXCEPT ![p] = ver]

\* what the finders return for worker 1: nothing when it does not exist
NoWorker == [skills |-> <<>>, experience |-> <<>>, education |-> <<>>,
             city |-> "", state |-> ""]
WorkerData == IF workerExists THEN wdata ELSE NoWorker

\* upsertMatchScore for every computed pair of the batch
UpsertBatch(r, d, found, ver) ==
  [p \in DOMAIN r |->
     IF p = BatchPair(d, IF d = "worker" THEN p[2] ELSE p[1])
        /\ (IF d = "worker" THEN p[2] ELSE p[1]) \in found
       THEN ver ELSE r[p]]

\* a loop test that also stops after a full page
LastPageInclusive(items) == Len(items) <= BATCH_SIZE

\* the loop test after a batch: if (result.items.length < BATCH_SIZE) break
LastPage(items) == Len(items) < BATCH_SIZE

\* recalcForWorker / recalcForVacancy is called
StartRecalc(d) ==
  /\ rpc[d] \in {"idle", "done", "rejected"}
  /\ clock < MaxClock
  /\ clock' = clock + 1
  /\ rgen' = [rgen EXCEPT ![d] = clock + 1]
  /\ rpage' = [rpage EXCEPT ![d] = 1]
  /\ rtotal' = [rtotal EXCEPT ![d] = 0]
  /\ rbatch' = [rbatch EXCEPT ![d] = 0]
  /\ ritems' = [ritems EXCEPT ![d] = <<>>]
  /\ rreq' = [rreq EXCEPT ![d] = <<>>]
  /\ rsnap' = [rsnap EXCEPT ![d] = cache]
  /\ rpc' = [rpc EXCEPT ![d] = IF d = "vacancy" THEN "check" ELSE "page"]
  /\ rseen' = [rseen EXCEPT ![d] = <<>>]
  /\ ropen' = [ropen EXCEPT ![d] = Range(Population(d))]
  /\ UNCHANGED <<cache, lock, rows, keyhist, cvars, doneGen, popvars, bvars,
                 svars, qvars, sinput, nchg>>

\* recalcForVacancy: const vacancy = await getVacancy(id); if (!vacancy) throw
RecalcGetVacancy(d) ==
  /\ rpc[d] = "check"
  /\ rpc' = [rpc EXCEPT ![d] = IF vacancyExists THEN "page" ELSE "rejected"]
  /\ UNCHANGED <<cache, lock, rows, clock, keyhist, cvars, rpage, rtotal,
                 rbatch, ritems, rgen, rreq, rsnap, doneGen, popvars, xvars>>

\* const result = await getActive...(id, page, BATCH_SIZE);
\* if (result.items.length === 0) break
FetchPage(d) ==
  /\ rpc[d] = "page"
  /\ LET items == PageOf(Population(d), rpage[d], BATCH_SIZE) IN
       /\ ritems' = [ritems EXCEPT ![d] = items]
       /\ rreq' = [rreq EXCEPT ![d] =
                     Append(@, [page |-> rpage[d], size |-> Len(items)])]
       /\ rpc' = [rpc EXCEPT ![d] = IF Len(items) = 0 THEN "finish" ELSE "batch"]
       /\ rseen' = [rseen EXCEPT ![d] = @ \o items]
  /\ UNCHANGED <<cache, lock, rows, clock, keyhist, cvars, rpage, rtotal,
                 rbatch, rgen, rsnap, doneGen, popvars, bvars, svars, qvars,
                 sinput, ropen, nchg>>

\* const calculated = await recalculateBatchFor...(id, ids);
\* totalCalculated += calculated; batchCount++; the loop test; page++
RecalcBatch(d) ==
  /\ rpc[d] = "batch"
  /\ LET found == BatchFound(d, ritems[d]) IN
       /\ rows' = UpsertBatch(rows, d, found, clock)
       /\ lastUp' = UpsertBatch(lastUp, d, found, clock)
       /\ stored' = IF SubjectId \in found
                      THEN CalculateScoreComponents(WorkerData, vdata, now)
                      ELSE stored
       /\ rtotal' = [rtotal EXCEPT ![d] = @ + Cardinality(found)]
  /\ rbatch' = [rbatch EXCEPT ![d] = @ + 1]
  /\ IF LastPage(ritems[d])
       THEN /\ rpc' = [rpc EXCEPT ![d] = "finish"]
            /\ UNCHANGED rpage
       ELSE /\ rpc' = [rpc EXCEPT ![d] = "page"]
            /\ rpage' = [rpage EXCEPT ![d] = @ + 1]
  /\ UNCHANGED <<zvars, cache, lock, clock, keyhist, cvars, ritems, rgen, rreq,
                 rsnap, doneGen, popvars, bvars, now, wdata, vdata,
                 workerExists, cres, audit, first>>

\* ---- recalculateBatchForWorker / recalculateBatchForVacancy, chunk by chunk
\* a slice that takes all the remaining ids of the batch
ChunkOfWholeBatch(ids, off) == SubSeq(ids, off + 1, Len(ids))

\* chunks.push(ids.slice(i, i + CONCURRENCY_LIMIT))
ChunkOf(ids, off) ==
  SubSeq(ids, off + 1, Min(off + CONCURRENCY_LIMIT, Len(ids)))

\* upserts of the current run of recalcFor<d> that were started and have
\* not settled
InFlight(d) == Cardinality(binfl[d].ids) + binfl[d].more

\* recalculateBatchFor* returned `calculated` to recalcFor*:
\* totalCalculated += calculated; batchCount++; the loop test; page++
BatchReturned(d, calculated) ==
  /\ rtotal' = [rtotal EXCEPT ![d] = @ + calculated]
  /\ rbatch' = [rbatch EXCEPT ![d] = @ + 1]
  /\ IF LastPage(ritems[d])
       THEN /\ rpc' = [rpc EXCEPT ![d] = "finish"]
            /\ UNCHANGED rpage
       ELSE /\ rpc' = [rpc EXCEPT ![d] = "page"]
            /\ rpage' = [rpage EXCEPT ![d] = @ + 1]

\* recalculateBatchFor* is entered: the subject's data and the maps of the
\* batch are loaded (recalculateBatchForVacancy returns 0 when the vacancy
\* is missing), the chunks are cut, totalCalculated = 0
BatchLoad(d) ==
  /\ rpc[d] = "batch"
  /\ IF d = "vacancy" /\ ~vacancyExists
       THEN /\ BatchReturned(d, 0)
            /\ UNCHANGED <<boff, bsum>>
       ELSE /\ boff' = [boff EXCEPT ![d] = 0]
            /\ bsum' = [bsum EXCEPT ![d] = 0]
            /\ rpc' = [rpc EXCEPT ![d] = "chunk"]
            /\ UNCHANGED <<rpage, rtotal, rbatch>>
  /\ UNCHANGED <<zvars, cache, lock, rows, clock, keyhist, cvars, ritems, rgen, rreq,
                 rsnap, doneGen, binfl, bfailed, popvars, svars>>

\* Promise.all(chunk.map(process...)): every pair of the chunk found in the
\* maps is computed and its upsert is started; the others return 0
ChunkStart(d) ==
  /\ rpc[d] = "chunk"
  /\ LET chunk == ChunkOf(ritems[d], boff[d])
         started == BatchFound(d, chunk)
         kept == {i \in started : BatchPair(d, i) \in DOMAIN rows}
     IN /\ binfl' = [binfl EXCEPT ![d] =
                       [n |-> Cardinality(started), ids |-> kept,
                        more |-> Cardinality(started) - Cardinality(kept),
                        ver |-> clock, year |-> now]]
        /\ boff' = [boff EXCEPT ![d] = @ + Len(chunk)]
  /\ rpc' = [rpc EXCEPT ![d] = "await"]
  /\ UNCHANGED <<zvars, cache, lock, rows, clock, keyhist, cvars, rpage, rtotal,
                 rbatch, ritems, rgen, rreq, rsnap, doneGen, bsum, bfailed,
                 popvars, svars>>

\* one started upsert leaves the in-flight set
Settled(d, i) ==
  IF i \in binfl[d].ids
    THEN [binfl EXCEPT ![d].ids = @ \ {i}]
    ELSE [binfl EXCEPT ![d].more = @ - 1]

\* ids that stand for the upserts in flight: those of the pairs kept in
\* rows, and 0 for any of the others
InFlightIds(d) ==
  binfl[d].ids \cup (IF binfl[d].more > 0 THEN {0} ELSE {})

\* upsertMatchScore of one pair resolves: the row is written with the
\* components computed when the chunk was started
UpsertSettle(d) ==
  /\ rpc[d] \in {"await", "aborted"}
  /\ \E i \in InFlightIds(d) :
       /\ binfl' = Settled(d, i)
       /\ IF i # 0
            THEN /\ rows' = UpsertMatchScore(rows, BatchPair(d, i),
                                             binfl[d].ver)
                 /\ lastUp' = [lastUp EXCEPT ![BatchPair(d, i)] =
                                 binfl[d].ver]
                 /\ stored' = IF BatchPair(d, i) = <<SubjectId, SubjectId>>
                                THEN CalculateScoreComponents(
                                       WorkerData, vdata, binfl[d].year)
                                ELSE stored
            ELSE UNCHANGED <<rows, lastUp, stored>>
  /\ UNCHANGED <<zvars, cache, lock, clock, keyhist, cvars, rvars, boff, bsum,
                 bfailed, popvars, now, wdata, vdata, workerExists, cres,
                 audit, first>>

\* a failure handler that deletes the subject's cache key
UpsertFailInvalidating(d) ==
  /\ rpc[d] \in {"await", "aborted"}
  /\ \E i \in InFlightIds(d) : binfl' = Settled(d, i)
  /\ bfailed' = [bfailed EXCEPT ![d] = TRUE]
  /\ rpc' = [rpc EXCEPT ![d] = "aborted"]
  /\ cache' = [cache EXCEPT ![KeyOf(d)] = NoEntry]
  /\ UNCHANGED <<zvars, lock, rows, clock, keyhist, cvars, rpage, rtotal,
                 rbatch, ritems, rgen, rreq, rsnap, doneGen, boff, bsum,
                 popvars, svars>>

\* upsertMatchScore of one pair rejects: Promise.all rejects with it, and
\* recalculateBatchFor* and recalcFor* (no try/catch) end with the error;
\* the other upserts of the chunk stay in flight
UpsertFail(d) ==
  /\ rpc[d] \in {"await", "aborted"}
  /\ \E i \in InFlightIds(d) : binfl' = Settled(d, i)
  /\ bfailed' = [bfailed EXCEPT ![d] = TRUE]
  /\ rpc' = [rpc EXCEPT ![d] = "aborted"]
  /\ UNCHANGED <<zvars, cache, lock, rows, clock, keyhist, cvars, rpage, rtotal,
                 rbatch, ritems, rgen, rreq, rsnap, doneGen, boff, bsum,
                 popvars, svars>>

\* every promise of the chunk resolved:
\* totalCalculated += results.reduce(...); the next chunk, or return
ChunkDone(d) ==
  /\ rpc[d] = "await"
  /\ InFlight(d) = 0
  /\ binfl' = [binfl EXCEPT ![d] = NoInFlight]
  /\ IF boff[d] < Len(ritems[d])
       THEN /\ bsum' = [bsum EXCEPT ![d] = @ + binfl[d].n]
            /\ rpc' = [rpc EXCEPT ![d] = "chunk"]
            /\ UNCHANGED <<boff, rpage, rtotal, rbatch>>
       ELSE /\ BatchReturned(d, bsum[d] + binfl[d].n)
            /\ bsum' = [bsum EXCEPT ![d] = 0]
            /\ boff' = [boff EXCEPT ![d] = 0]
  /\ UNCHANGED <<zvars, cache, lock, rows, clock, keyhist, cvars, ritems, rgen, rreq,
                 rsnap, doneGen, bfailed, popvars, svars>>

\* keys deleted when recalcFor<d> completes: invalidateWorkerCache(workerId)
\* or invalidateVacancyCache(vacancyId)
InvalidatedKeys(d) == {KeyOf(d)}

\* auditService.log(...); await invalidate...Cache(id); return
FinishRecalc(d) ==
  /\ rpc[d] = "finish"
  /\ cache' = [k \in Keys |->
                 IF k \in InvalidatedKeys(d) THEN NoEntry ELSE cache[k]]
  /\ keyhist' = [k \in Keys |-> keyhist[k] \/ cache'[k] # cache[k]]
  /\ doneGen' = [doneGen EXCEPT ![d] = rgen[d]]
  /\ rpc' = [rpc EXCEPT ![d] = "done"]
  /\ UNCHANGED <<lock, rows, clock, cvars, rpage, rtotal, rbatch, ritems,
                 rgen, rreq, rsnap, popvars, xvars>>

\* MatchingService.invalidateWorkerCache / invalidateVacancyCache
InvalidateCache(k) ==
  /\ cache[k].present
  /\ cache' = [cache EXCEPT ![k] = NoEntry]
  /\ keyhist' = [keyhist EXCEPT ![k] = TRUE]
  /\ UNCHANGED <<lock, rows, clock, cvars, rvars, popvars, xvars>>

\* MatchingService.calculateScore(1, 1): throws NotFoundException when the
\* vacancy is missing; else computes the score, upserts the row of the pair
\* and writes the audit event.  For a worker that does not exist the finders
\* return nothing and the score is computed all the same; the upsert then
\* writes the row, or is rejected by the database.
CalculateScore ==
  /\ clock < MaxClock
  /\ clock' = clock + 1
  /\ IF ~vacancyExists
       THEN /\ cres' = "not_found"
            /\ UNCHANGED <<rows, lastUp, stored, audit, first>>
       ELSE \E accepted \in (IF workerExists THEN {TRUE} ELSE BOOLEAN) :
              IF accepted
                THEN /\ rows' = UpsertMatchScore(
                                  rows, <<SubjectId, SubjectId>>, clock + 1)
                     /\ lastUp' = [lastUp EXCEPT
                                     ![<<SubjectId, SubjectId>>] = clock + 1]
                     /\ stored' = ComputeScore(WorkerData, vdata, now)
                     /\ audit' = audit + 1
                     /\ first' = IF first = NoScore
                                   THEN [score |-> stored', year |-> now]
                                   ELSE first
                     /\ cres' = "ok"
                ELSE /\ cres' = "db_error"
                     /\ UNCHANGED <<rows, lastUp, stored, audit, first>>
  /\ UNCHANGED <<zvars, cache, lock, keyhist, cvars, rvars, popvars, bvars, now,
                 wdata, vdata, workerExists>>

\* the calendar year turns
YearTurns ==
  /\ now < FirstYear + 1
  /\ now' = now + 1
  /\ UNCHANGED <<zvars, cache, lock, rows, clock, keyhist, cvars, rvars, popvars,
                 bvars, wdata, vdata, workerExists, stored, cres, audit,
                 first, lastUp>>

\* ------------------------------ MatchingQueueService / MatchingProcessor
NoJob == [state |-> "none"]
NoJobId == <<"none", 0>>
JobIds ==
  {<<d, SubjectId>> : d \in Dirs} \cup {<<"auto", n>> : n \in 1..MaxAdds}

\* const jobId = `worker-${workerId}` / `vacancy-${vacancyId}`
JobIdFor(d) == <<d, SubjectId>>

\* options without jobId: bullmq numbers the job, the n-th add gets id n
CreateJobOptionsNoId(jobId, n) == <<"auto", n>>

\* createJobOptions(jobId): the id under which queue.add stores the job
CreateJobOptions(jobId, n) == jobId

\* getJobStatus(jobId)
GetJobStatus(id) ==
  IF jobs[id] = NoJob THEN "not_found"
  ELSE IF jobs[id].state = "completed" THEN "completed"
  ELSE IF jobs[id].state = "failed" THEN "failed"
  ELSE IF jobs[id].state = "delayed" THEN "delayed"
  ELSE IF jobs[id].state = "active" THEN "processing"
  ELSE "waiting"

Unfinished(id) == jobs[id].state \in {"waiting", "delayed", "active"}

\* addRecalcWorkerJob(1) / addRecalcVacancyJob(1) is called
AddCall(c, d) ==
  /\ apc[c] \in {"idle", "done"}
  /\ nadds < MaxAdds
  /\ nadds' = nadds + 1
  /\ apc' = [apc EXCEPT ![c] = "getjob"]
  /\ akind' = [akind EXCEPT ![c] = d]
  /\ afound' = [afound EXCEPT ![c] = FALSE]
  /\ ares' = [ares EXCEPT ![c] = NoJobId]
  /\ UNCHANGED <<cache, lock, rows, clock, keyhist, cvars, rvars, popvars,
                 bvars, svars, tvars, jobs, nqadd>>

\* const existingJob = await this.queue.getJob(jobId)
AddGetJob(c) ==
  /\ apc[c] = "getjob"
  /\ afound' = [afound EXCEPT ![c] = jobs[JobIdFor(akind[c])] # NoJob]
  /\ apc' = [apc EXCEPT ![c] =
               IF jobs[JobIdFor(akind[c])] # NoJob THEN "status" ELSE "add"]
  /\ UNCHANGED <<cache, lock, rows, clock, keyhist, cvars, rvars, popvars,
                 bvars, svars, tvars, jobs, nqadd, nadds, akind, ares>>

\* const state = await this.getJobStatus(jobId); return jobId unless the
\* state is not_found, completed or failed
AddGetStatus(c) ==
  /\ apc[c] = "status"
  /\ IF GetJobStatus(JobIdFor(akind[c]))
          \notin {"not_found", "completed", "failed"}
       THEN /\ ares' = [ares EXCEPT ![c] = JobIdFor(akind[c])]
            /\ apc' = [apc EXCEPT ![c] = "done"]
       ELSE /\ apc' = [apc EXCEPT ![c] = "add"]
            /\ UNCHANGED ares
  /\ UNCHANGED <<cache, lock, rows, clock, keyhist, cvars, rvars, popvars,
                 bvars, svars, tvars, jobs, nqadd, nadds, akind, afound>>

\* a new job as queue.add stores it
NewJob(d) ==
  [state |-> "waiting", name |-> d, attemptsMade |-> 0, runs |-> 0,
   delay |-> 0]

\* const job = await this.queue.add(name, data, createJobOptions(jobId));
\* return job.id -- bullmq ignores an add whose job id is that of a job it
\* still holds, in whatever state, and returns that id
AddQueueAdd(c) ==
  /\ apc[c] = "add"
  /\ LET id == CreateJobOptions(JobIdFor(akind[c]), nqadd + 1) IN
       /\ jobs' = IF jobs[id] = NoJob
                    THEN [jobs EXCEPT ![id] = NewJob(akind[c])]
                    ELSE jobs
       /\ ares' = [ares EXCEPT ![c] = id]
  /\ nqadd' = nqadd + 1
  /\ apc' = [apc EXCEPT ![c] = "done"]
  /\ UNCHANGED <<cache, lock, rows, clock, keyhist, cvars, rvars, popvars,
                 bvars, svars, tvars, nadds, akind, afound>>

ActiveJobs == {id \in JobIds : jobs[id].state = "active"}

\* the Worker takes a waiting job while fewer than CONCURRENCY jobs are
\* active, and calls processJob
JobStart(id) ==
  /\ jobs[id].state = "waiting"
  /\ Cardinality(ActiveJobs) < CONCURRENCY
  /\ jobs' = [jobs EXCEPT ![id].state = "active", ![id].runs = @ + 1]
  /\ UNCHANGED <<cache, lock, rows, clock, keyhist, cvars, rvars, popvars,
                 bvars, svars, tvars, nqadd, nadds, apc, akind, afound, ares>>

\* processJob resolves: the job is completed
JobSucceeds(id) ==
  /\ jobs[id].state = "active"
  /\ jobs' = [jobs EXCEPT ![id].state = "completed"]
  /\ UNCHANGED <<cache, lock, rows, clock, keyhist, cvars, rvars, popvars,
                 bvars, svars, tvars, nqadd, nadds, apc, akind, afound, ares>>

\* a retry test that allows one attempt more
RetriesLeftInclusive(attemptsMade) == attemptsMade <= MAX_RETRIES

\* attempts: MatchingJobDefaults.MAX_RETRIES
RetriesLeft(attemptsMade) == attemptsMade < MAX_RETRIES

RECURSIVE Pow2(_)
Pow2(n) == IF n = 0 THEN 1 ELSE 2 * Pow2(n - 1)

\* backoff: { type: 'exponential', delay: MatchingJobDefaults.RETRY_DELAY }
Backoff(attemptsMade) == Pow2(attemptsMade - 1) * RETRY_DELAY

\* processJob throws: the job is delayed for a retry while attempts are
\* left, else it is failed
JobThrows(id) ==
  /\ jobs[id].state = "active"
  /\ LET made == jobs[id].attemptsMade + 1 IN
       jobs' = IF RetriesLeft(made)
                 THEN [jobs EXCEPT ![id].state = "delayed",
                                   ![id].attemptsMade = made,
                                   ![id].delay = Backoff(made)]
                 ELSE [jobs EXCEPT ![id].state = "failed",
                                   ![id].attemptsMade = made]
  /\ UNCHANGED <<cache, lock, rows, clock, keyhist, cvars, rvars, popvars,
                 bvars, svars, tvars, nqadd, nadds, apc, akind, afound, ares>>

\* the backoff delay of a delayed job is over
DelayElapses(id) ==
  /\ jobs[id].state = "delayed"
  /\ jobs' = [jobs EXCEPT ![id].state = "waiting"]
  /\ UNCHANGED <<cache, lock, rows, clock, keyhist, cvars, rvars, popvars,
                 bvars, svars, tvars, nqadd, nadds, apc, akind, afound, ares>>

\* removeOnComplete / removeOnFail: a finished job is dropped by age or count
JobRemoved(id) ==
  /\ jobs[id].state \in {"completed", "failed"}
  /\ jobs' = [jobs EXCEPT ![id] = NoJob]
  /\ UNCHANGED <<cache, lock, rows, clock, keyhist, cvars, rvars, popvars,
                 bvars, svars, tvars, nqadd, nadds, apc, akind, afound, ares>>

\* ---------------------------------------------------------- specifications
InitStores ==
  /\ cache = [k \in Keys |-> NoEntry]
  /\ lock = [k \in Keys |-> NoOwner]
  /\ clock = 0
  /\ keyhist = [k \in Keys |-> FALSE]

InitCallers(at) ==
  /\ pc = [c \in Callers |-> at]
  /\ \E k \in Keys : ckey = [c \in Callers |-> k]
  /\ attempts = [c \in Callers |-> 0]
  /\ matches = [c \in Callers |-> <<>>]
  /\ result = [c \in Callers |-> <<>>]
  /\ hist = [c \in Callers |-> NoHist]

InitRecalc ==
  /\ rpc = [d \in Dirs |-> "idle"]
  /\ rpage = [d \in Dirs |-> 1]
  /\ rtotal = [d \in Dirs |-> 0]
  /\ rbatch = [d \in Dirs |-> 0]
  /\ ritems = [d \in Dirs |-> <<>>]
  /\ rgen = [d \in Dirs |-> 0]
  /\ rreq = [d \in Dirs |-> <<>>]
  /\ rsnap = [d \in Dirs |-> [k \in Keys |-> NoEntry]]
  /\ doneGen = [d \in Dirs |-> 0]
  /\ rseen = [d \in Dirs |-> <<>>]
  /\ ropen = [d \in Dirs |-> {}]
  /\ nchg = 0

InitBatch ==
  /\ boff = [d \in Dirs |-> 0]
  /\ bsum = [d \in Dirs |-> 0]
  /\ binfl = [d \in Dirs |-> NoInFlight]
  /\ bfailed = [d \in Dirs |-> FALSE]

\* inputs of the scoring
WorkerInputs ==
  {[skills |-> sk, experience |-> ex, education |-> ed,
    city |-> loc[1], state |-> loc[2]] :
     sk \in {<<1, 2>>, <<1, 1>>},
     ex \in {<<>>,
             <<[startYear |-> FirstYear - 2, endYear |-> FirstYear - 1]>>,
             <<[startYear |-> FirstYear - 2, endYear |-> 0]>>},
     ed \in {<<>>, <<"DIPLOMA", "MASTER">>},
     loc \in {<<"Tashkent", "TAS">>}}

VacancyInputs ==
  {[skills |-> sk[1], required |-> sk[2],
    experienceMinYears |-> yr[1], experienceMaxYears |-> yr[2],
    educationMinLevel |-> ed,
    locationCity |-> loc[1], locationState |-> loc[2], isRemote |-> loc[3],
    salaryMin |-> sal[1], salaryMax |-> sal[2], salaryIsNegotiable |-> sal[3]] :
     sk \in {<<{}, {}>>, <<{1}, {1}>>, <<{1, 2, 3}, {3}>>,
            <<{1, 2, 3}, {1, 2, 3}>>},
     yr \in {<<0, 0>>, <<3, 0>>, <<0, 1>>},
     ed \in {"", "DOCTORATE"},
     loc \in {<<"tashkent", "tas", FALSE>>, <<"samarkand", "tas", TRUE>>},
     sal \in {<<-1, -1, FALSE>>, <<1000, -1, FALSE>>, <<1000, 2000, TRUE>>}}

DefaultWorker == CHOOSE w \in WorkerInputs : w.experience = <<>>
DefaultVacancy == CHOOSE v \in VacancyInputs : v.skills = {}

InitScoreRow ==
  /\ now = FirstYear
  /\ stored = NoScore
  /\ cres = "none"
  /\ audit = 0
  /\ first = NoScore

InitData ==
  /\ wdata = DefaultWorker
  /\ vdata = DefaultVacancy
  /\ workerExists = TRUE

\* lists handed to set*Matches: up to MaxList records whose scores rise,
\* fall, stay or alternate with the position, and every list of up to
\* ShortLen records with scores up to ShortLen
ScoreAt(shape, i) ==
  IF shape = "up" THEN i
  ELSE IF shape = "down" THEN MaxList - i
  ELSE IF shape = "flat" THEN MIN_SCORE_THRESHOLD
  ELSE (i * 7) % 5

MatchList(scores) ==
  [i \in 1..Len(scores) |->
     [workerId |-> SubjectId, vacancyId |-> i, ver |-> 1,
      totalScore |-> scores[i]]]

RECURSIVE SeqsUpTo(_, _)
SeqsUpTo(S, n) ==
  IF n = 0 THEN {<<>>}
  ELSE LET shorter == SeqsUpTo(S, n - 1)
       IN shorter \cup {Append(q, x) : q \in shorter, x \in S}

SortInputs ==
  {MatchList([i \in 1..n |-> ScoreAt(shape, i)]) :
     n \in 0..MaxList, shape \in {"up", "down", "flat", "mixed"}}
  \cup {MatchList(q) : q \in SeqsUpTo(0..ShortLen, ShortLen)}

InitQueue ==
  /\ jobs = [id \in JobIds |-> NoJob]
  /\ nqadd = 0
  /\ nadds = 0
  /\ apc = [c \in Callers |-> "idle"]
  /\ akind = [c \in Callers |-> "worker"]
  /\ afound = [c \in Callers |-> FALSE]
  /\ ares = [c \in Callers |-> NoJobId]

InitExtra ==
  InitBatch /\ InitScoreRow /\ InitData /\ sinput = <<>> /\ InitQueue

InitSmallPop ==
  /\ vacancies = Iota(SmallPop)
  /\ workers = Iota(SmallPop)
  /\ vacancyExists = TRUE
  /\ rows = [p \in Pairs(SmallPop, SmallPop) |-> 0]
  /\ lastUp = rows
  /\ recommended \in {Pairs(SmallPop, SmallPop), {}}

\* NumCallers concurrent getOrSet calls for one key, cache and lock store
\* empty, while scores are computed, entries invalidated and TTLs run out
Init ==
  InitStores /\ InitCallers("get") /\ InitRecalc /\ InitSmallPop /\ InitExtra

Next ==
  \/ \E c \in Callers : GetInitial(c)
  \/ \E c \in Callers : TryAcquire(c)
  \/ \E c \in Callers : DoubleCheck(c)
  \/ \E c \in Callers : FetchLocked(c)
  \/ \E c \in Callers : Populate(c)
  \/ \E c \in Callers : Release(c)
  \/ \E c \in Callers : RetryCheck(c)
  \/ \E c \in Callers : Fallback(c)
  \/ \E k \in Keys : LockExpire(k)
  \/ \E k \in Keys : CacheExpire(k)
  \/ \E k \in Keys : InvalidateCache(k)
  \/ CalculateScore

Spec == Init /\ [][Next]_vars

\* readers of one key that begin at any time, and recalculations of both
\* subjects
InitInval ==
  InitStores /\ InitCallers("idle") /\ InitRecalc /\ InitSmallPop /\ InitExtra

NextInval ==
  \/ \E c \in Callers : Start(c)
  \/ \E c \in Callers : GetInitial(c)
  \/ \E c \in Callers : TryAcquire(c)
  \/ \E c \in Callers : DoubleCheck(c)
  \/ \E c \in Callers : FetchLocked(c)
  \/ \E c \in Callers : Populate(c)
  \/ \E c \in Callers : Release(c)
  \/ \E c \in Callers : RetryCheck(c)
  \/ \E c \in Callers : Fallback(c)
  \/ \E d \in Dirs : StartRecalc(d)
  \/ \E d \in Dirs : RecalcGetVacancy(d)
  \/ \E d \in Dirs : FetchPage(d)
  \/ \E d \in Dirs : RecalcBatch(d)
  \/ \E d \in Dirs : FinishRecalc(d)

SpecInval == InitInval /\ [][NextInval]_vars

\* recalculations where the OPEN vacancies or the ACTIVE workers are a
\* population of up to MaxPop members
InitPage ==
  /\ InitStores /\ InitCallers("idle") /\ InitRecalc /\ InitExtra
  /\ ckey[1] = "worker:1"
  /\ \E n \in 0..MaxPop :
       /\ \/ vacancies = Iota(n) /\ workers = Iota(Min(n, SmallPop))
          \/ vacancies = Iota(Min(n, SmallPop)) /\ workers = Iota(n)
       /\ rows = [p \in Pairs(Min(n, SmallPop), Min(n, SmallPop)) |-> 0]
       /\ lastUp = rows
       /\ recommended = DOMAIN rows
  /\ vacancyExists \in BOOLEAN

NextPage ==
  \/ \E d \in Dirs : StartRecalc(d)
  \/ \E d \in Dirs : RecalcGetVacancy(d)
  \/ \E d \in Dirs : FetchPage(d)
  \/ \E d \in Dirs : RecalcBatch(d)
  \/ \E d \in Dirs : FinishRecalc(d)

\* a recalculation that was called runs on (the event loop resumes it)
RecalcRun(d) ==
  RecalcGetVacancy(d) \/ FetchPage(d) \/ RecalcBatch(d) \/ FinishRecalc(d)

SpecPage ==
  InitPage /\ [][NextPage]_vars /\ \A d \in Dirs : WF_vars(RecalcRun(d))

\* ---- the populations change while a recalculation is paging
\* positions of the members that may leave: the newest, the last of the
\* first page, the oldest
LeavePositions(list) == {1, BATCH_SIZE, Len(list)} \cap (1..Len(list))

RemoveAt(list, i) == SubSeq(list, 1, i - 1) \o SubSeq(list, i + 1, Len(list))

\* id of a member that was never in a population before
FreshId == MaxPop + 1 + nchg

SetPopulation(d, list) ==
  IF d = "worker" THEN vacancies' = list /\ UNCHANGED workers
  ELSE workers' = list /\ UNCHANGED vacancies

\* another actor opens a vacancy (activates a worker profile): it matches
\* where { status: 'OPEN' / 'ACTIVE', deletedAt: null } from now on and,
\* being the newest, comes first under orderBy desc
PopulationGains(d) ==
  /\ nchg < MaxChanges
  /\ SetPopulation(d, <<FreshId>> \o Population(d))
  /\ nchg' = nchg + 1
  /\ UNCHANGED <<cache, lock, rows, clock, keyhist, cvars, rvars,
                 vacancyExists, recommended, bvars, svars, qvars, sinput,
                 rseen, ropen>>

\* another actor closes or deletes a vacancy (a worker profile): it no
\* longer matches the where clause of the page query
PopulationLoses(d) ==
  /\ nchg < MaxChanges
  /\ \E i \in LeavePositions(Population(d)) :
       /\ SetPopulation(d, RemoveAt(Population(d), i))
       /\ ropen' = [ropen EXCEPT ![d] = @ \ {Population(d)[i]}]
  /\ nchg' = nchg + 1
  /\ UNCHANGED <<cache, lock, rows, clock, keyhist, cvars, rvars,
                 vacancyExists, recommended, bvars, svars, qvars, sinput,
                 rseen>>

\* populations of less than a page, a full page, a page and one more
ShiftPops == {KeptPop, BATCH_SIZE, BATCH_SIZE + 1}

InitShift ==
  /\ InitStores /\ InitCallers("idle") /\ InitRecalc /\ InitExtra
  /\ ckey[1] = "worker:1"
  /\ \E n \in ShiftPops :
       \/ vacancies = Iota(n) /\ workers = Iota(SmallPop)
       \/ vacancies = Iota(SmallPop) /\ workers = Iota(n)
  /\ rows = [p \in Pairs(SmallPop, SmallPop) |-> 0]
  /\ lastUp = rows
  /\ recommended = DOMAIN rows
  /\ vacancyExists \in BOOLEAN

NextShift ==
  \/ NextPage
  \/ \E d \in Dirs : PopulationGains(d)
  \/ \E d \in Dirs : PopulationLoses(d)

SpecShift == InitShift /\ [][NextShift]_vars

\* recalculations chunk by chunk, where an upsert may fail; the populations
\* have the sizes at which a chunk or a page is empty, full or just begun
ChunkPops ==
  {0, KeptPop, CONCURRENCY_LIMIT, CONCURRENCY_LIMIT + 1, BATCH_SIZE + 1,
   MaxPop}

\* the rows of the pairs with ids up to KeptPop are kept
InitChunk ==
  /\ InitStores /\ InitCallers("idle") /\ InitRecalc /\ InitExtra
  /\ ckey[1] = "worker:1"
  /\ \E n \in ChunkPops :
       \/ vacancies = Iota(n) /\ workers = Iota(Min(n, KeptPop))
       \/ vacancies = Iota(Min(n, KeptPop)) /\ workers = Iota(n)
  /\ rows = [p \in Pairs(KeptPop, KeptPop) |-> 0]
  /\ lastUp = rows
  /\ recommended = DOMAIN rows
  /\ vacancyExists = TRUE

NextChunk ==
  \/ \E d \in Dirs : StartRecalc(d)
  \/ \E d \in Dirs : RecalcGetVacancy(d)
  \/ \E d \in Dirs : FetchPage(d)
  \/ \E d \in Dirs : BatchLoad(d)
  \/ \E d \in Dirs : ChunkStart(d)
  \/ \E d \in Dirs : UpsertSettle(d)
  \/ \E d \in Dirs : UpsertFail(d)
  \/ \E d \in Dirs : ChunkDone(d)
  \/ \E d \in Dirs : FinishRecalc(d)

SpecChunk == InitChunk /\ [][NextChunk]_vars

\* the writers of the MatchScore rows side by side: calculateScore(1, 1) and
\* the recalculations of worker 1 and vacancy 1 over KeptPop vacancies and
\* KeptPop workers
InitUpsert ==
  /\ InitStores /\ InitCallers("idle") /\ InitRecalc /\ InitExtra
  /\ ckey[1] = "worker:1"
  /\ vacancies = Iota(KeptPop)
  /\ workers = Iota(KeptPop)
  /\ rows = [p \in Pairs(KeptPop, KeptPop) |-> 0]
  /\ lastUp = rows
  /\ recommended = DOMAIN rows
  /\ vacancyExists = TRUE

NextUpsert ==
  \/ \E d \in Dirs : StartRecalc(d)
  \/ \E d \in Dirs : RecalcGetVacancy(d)
  \/ \E d \in Dirs : FetchPage(d)
  \/ \E d \in Dirs : BatchLoad(d)
  \/ \E d \in Dirs : ChunkStart(d)
  \/ \E d \in Dirs : UpsertSettle(d)
  \/ \E d \in Dirs : UpsertFail(d)
  \/ \E d \in Dirs : ChunkDone(d)
  \/ \E d \in Dirs : FinishRecalc(d)
  \/ CalculateScore

SpecUpsert == InitUpsert /\ [][NextUpsert]_vars

\* the calls for "worker:1" of Spec, with the lease of a lock running out in
\* the end (redis EX)
InitLease == Init /\ ckey[1] = "worker:1" /\ recommended # {}

SpecLease ==
  InitLease /\ [][Next]_vars /\ \A k \in Keys : WF_vars(LockExpire(k))

\* the calls for "worker:1" of Spec while redis commands may fail
NextStore ==
  \/ \E c \in Callers : GetInitial(c)
  \/ \E c \in Callers : TryAcquire(c)
  \/ \E c \in Callers : DoubleCheck(c)
  \/ \E c \in Callers : FetchLocked(c)
  \/ \E c \in Callers : Populate(c)
  \/ \E c \in Callers : Release(c)
  \/ \E c \in Callers : RetryCheck(c)
  \/ \E c \in Callers : Fallback(c)
  \/ \E c \in Callers : StoreFails(c)
  \/ \E c \in Callers : UnwindRelease(c)
  \/ \E k \in Keys : LockExpire(k)

SpecStore == InitLease /\ [][NextStore]_vars

\* the calls for "worker:1" of Spec while the fetcher or the cache write
\* may throw
NextSection ==
  \/ \E c \in Callers : GetInitial(c)
  \/ \E c \in Callers : TryAcquire(c)
  \/ \E c \in Callers : DoubleCheck(c)
  \/ \E c \in Callers : FetchLocked(c)
  \/ \E c \in Callers : Populate(c)
  \/ \E c \in Callers : Release(c)
  \/ \E c \in Callers : RetryCheck(c)
  \/ \E c \in Callers : Fallback(c)
  \/ \E c \in Callers : FetcherThrows(c)
  \/ \E c \in Callers : CacheWriteThrows(c)
  \/ \E c \in Callers : UnwindReleased(c)
  \/ \E k \in Keys : LockExpire(k)
  \/ \E k \in Keys : CacheExpire(k)
  \/ CalculateScore

SpecSection == InitLease /\ [][NextSection]_vars

\* calls for "worker:1" over rows computed before, where the call of caller
\* 1 runs on (the event loop resumes it) and the others may stall
InitRetry ==
  /\ InitStores /\ InitCallers("get") /\ InitRecalc /\ InitExtra
  /\ ckey[1] = "worker:1"
  /\ vacancies = Iota(SmallPop)
  /\ workers = Iota(SmallPop)
  /\ vacancyExists = TRUE
  /\ rows = [p \in Pairs(SmallPop, SmallPop) |-> 1]
  /\ lastUp = rows
  /\ recommended = DOMAIN rows

NextRetry ==
  \/ \E c \in Callers : GetInitial(c)
  \/ \E c \in Callers : TryAcquire(c)
  \/ \E c \in Callers : DoubleCheck(c)
  \/ \E c \in Callers : FetchLocked(c)
  \/ \E c \in Callers : Populate(c)
  \/ \E c \in Callers : Release(c)
  \/ \E c \in Callers : RetryCheck(c)
  \/ \E c \in Callers : Fallback(c)
  \/ \E k \in Keys : LockExpire(k)
  \/ \E k \in Keys : CacheExpire(k)

CallRun(c) ==
  \/ GetInitial(c) \/ TryAcquire(c) \/ DoubleCheck(c) \/ FetchLocked(c)
  \/ Populate(c) \/ Release(c) \/ RetryCheck(c) \/ Fallback(c)

SpecRetry == InitRetry /\ [][NextRetry]_vars /\ WF_vars(CallRun(1))

\* recalculations that may fail, over rows computed and entries cached
\* before; vacancy 1 may be missing
RejectPops == {KeptPop, CONCURRENCY_LIMIT + 1, BATCH_SIZE + 1}

InitReject ==
  /\ InitCallers("idle") /\ InitRecalc /\ InitExtra
  /\ ckey[1] = "worker:1"
  /\ lock = [k \in Keys |-> NoOwner]
  /\ clock = 0
  /\ keyhist = [k \in Keys |-> FALSE]
  /\ vacancyExists \in BOOLEAN
  /\ \E n \in RejectPops :
       /\ vacancies = IF vacancyExists THEN Iota(n) ELSE <<>>
       /\ workers = Iota(KeptPop)
  /\ rows = [p \in Pairs(KeptPop, KeptPop) |-> 1]
  /\ lastUp = rows
  /\ recommended = DOMAIN rows
  /\ cache = [k \in Keys |->
               [present |-> TRUE,
                list |-> <<[workerId |-> SubjectId, vacancyId |-> SubjectId,
                            ver |-> 1,
                            totalScore |-> MIN_SCORE_THRESHOLD]>>]]

SpecReject == InitReject /\ [][NextChunk]_vars

\* calculateScore(1, 1) and recalculations over the inputs of the scoring,
\* where worker 1 or vacancy 1 may be missing and the year may turn
InitScore ==
  /\ InitStores /\ InitCallers("idle") /\ InitRecalc /\ InitBatch
  /\ InitScoreRow /\ sinput = <<>> /\ InitQueue
  /\ ckey[1] = "worker:1"
  /\ \E ex \in {<<TRUE, TRUE>>, <<FALSE, TRUE>>, <<TRUE, FALSE>>} :
       workerExists = ex[1] /\ vacancyExists = ex[2]
  /\ vacancies = IF vacancyExists THEN Iota(SmallPop) ELSE <<>>
  /\ workers = IF workerExists THEN Iota(SmallPop) ELSE <<>>
  /\ rows = [p \in Pairs(SmallPop, SmallPop) |-> 0]
  /\ lastUp = rows
  /\ recommended = DOMAIN rows
  /\ wdata \in WorkerInputs
  /\ vdata \in VacancyInputs

NextScore ==
  \/ CalculateScore
  \/ YearTurns
  \/ \E d \in Dirs : StartRecalc(d)
  \/ \E d \in Dirs : RecalcGetVacancy(d)
  \/ \E d \in Dirs : FetchPage(d)
  \/ \E d \in Dirs : RecalcBatch(d)
  \/ \E d \in Dirs : FinishRecalc(d)

SpecScore == InitScore /\ [][NextScore]_vars

\* setWorkerMatches / setVacancyMatches applied to the lists of SortInputs
InitSort ==
  /\ InitStores /\ InitCallers("idle") /\ InitRecalc /\ InitSmallPop
  /\ InitBatch /\ InitScoreRow /\ InitData /\ InitQueue
  /\ ckey[1] = "worker:1"
  /\ recommended # {}
  /\ sinput \in SortInputs

NextSort ==
  \/ \E k \in Keys : SetMatchesCall(k)
  \/ \E k \in Keys : CacheExpire(k)

SpecSort == InitSort /\ [][NextSort]_vars

\* requests that add recalculation jobs, and the Worker that runs them
InitJobs ==
  /\ InitStores /\ InitCallers("idle") /\ InitRecalc /\ InitSmallPop
  /\ InitExtra
  /\ ckey[1] = "worker:1"
  /\ recommended # {}

NextJobs ==
  \/ \E c \in Callers, d \in Dirs : AddCall(c, d)
  \/ \E c \in Callers : AddGetJob(c)
  \/ \E c \in Callers : AddGetStatus(c)
  \/ \E c \in Callers : AddQueueAdd(c)
  \/ \E id \in JobIds : JobStart(id)
  \/ \E id \in JobIds : JobSucceeds(id)
  \/ \E id \in JobIds : JobThrows(id)
  \/ \E id \in JobIds : DelayElapses(id)
  \/ \E id \in JobIds : JobRemoved(id)

SpecJobs == InitJobs /\ [][NextJobs]_vars

\* ------------------------------------------------------------------ claims
Fetches(c) == hist[c].fetchL + hist[c].fetchFB

RECURSIVE SumOver(_, _)
SumOver(f, S) ==
  IF S = {} THEN 0
  ELSE LET x == CHOOSE y \in S : TRUE IN f[x] + SumOver(f, S \ {x})

\* C1: the fetcher runs under the lock at most once per successful lock
\* acquisition, and every other fetcher run is the single fallback of a call
\* that made LOCK_MAX_RETRIES failed attempts, never acquired the lock and
\* never read a populated entry.
C1_SingleFlight ==
  /\ \A c \in Callers :
       /\ hist[c].fetchL <= hist[c].acq
       /\ pc[c] \in {"fetch", "set"} => hist[c].acq >= 1
       /\ pc[c] = "fallback" => attempts[c] = LOCK_MAX_RETRIES
       /\ (pc[c] = "fallback" \/ hist[c].fetchFB > 0) =>
            /\ hist[c].fetchFB <= 1
            /\ hist[c].acq = 0
            /\ hist[c].hits = 0
            /\ hist[c].fetchL = 0
  /\ SumOver([c \in Callers |-> hist[c].fetchL], Callers)
       <= SumOver([c \in Callers |-> hist[c].acq], Callers)

C1_Witness ==
  \E c, d \in Callers :
    /\ hist[c].fetchL = 1 /\ hist[c].acq = 1
    /\ hist[d].fetchFB = 1 /\ pc[d] = "done"

\* two calls for "vacancy:1" have returned and no other call has moved
TwoReturned(c, d) ==
  /\ c # d
  /\ pc[c] = "done" /\ pc[d] = "done"
  /\ ckey[c] = "vacancy:1" /\ ckey[d] = "vacancy:1"
  /\ \A e \in Callers \ {c, d} : pc[e] = "get"

\* no lease ran out and no entry of the key was deleted or ran out
Quiet(k) == ~keyhist[k] /\ \A c \in Callers : ~hist[c].lost

C3_OneInSection ==
  \A c, d \in Callers :
    (c # d /\ ckey[c] = ckey[d]) => ~(InSection(c) /\ InSection(d))

\* C3 (amended): two callers of one key are between acquireLock and
\* releaseLock together only when the lease of one of them ran out; a caller
\* whose lease did not run out is the holder of the lock; each call runs the
\* fetcher at most once, so the fallback runs never exceed the callers.
C3_OneUnexpiredInSection ==
  /\ \A c, d \in Callers :
       (c # d /\ ckey[c] = ckey[d] /\ InSection(c) /\ InSection(d)) =>
         (hist[c].lost \/ hist[d].lost)
  /\ \A c \in Callers :
       /\ (InSection(c) /\ ~hist[c].lost) => lock[ckey[c]] = c
       /\ Fetches(c) <= 1
  /\ SumOver([c \in Callers |-> hist[c].fetchFB], Callers) <= NumCallers

C3_Witness ==
  \E c, d \in Callers :
    /\ c # d /\ pc[c] = "set" /\ pc[d] = "fetch"
    /\ hist[c].lost /\ ~hist[d].lost /\ lock[ckey[d]] = d

C4_ReleaseStep ==
  \A c \in Callers :
    (pc[c] = "release" /\ pc'[c] = "done") =>
      /\ lock[ckey[c]] = c => lock'[ckey[c]] = NoOwner
      /\ lock[ckey[c]] # c => lock' = lock
      /\ \A k \in Keys \ {ckey[c]} : lock'[k] = lock[k]

\* C4: releaseLock deletes the lock exactly when the stored token is the
\* releaser's and leaves it unchanged otherwise, so the lock of a caller
\* whose lease did not run out is never removed by another caller's release.
C4_CompareAndDelete ==
  /\ [][C4_ReleaseStep]_vars
  /\ [](\A c \in Callers : (InSection(c) /\ ~hist[c].lost) => lock[ckey[c]] = c)

C4_Witness ==
  \E c, d \in Callers :
    /\ pc[c] = "done" /\ hist[c].stale /\ hist[c].lost
    /\ InSection(d) /\ lock[ckey[d]] = d

C5_AcquireStep ==
  \A c \in Callers :
    (pc[c] = "acquire" /\ pc'[c] # "acquire") =>
      /\ (pc'[c] = "dbl") <=> (lock[ckey[c]] = NoOwner)
      /\ lock[ckey[c]] = NoOwner => lock'[ckey[c]] = c
      /\ lock[ckey[c]] # NoOwner => lock' = lock

C5_Lifecycle ==
  \A k \in Keys :
    lock'[k] # lock[k] =>
      \/ /\ lock[k] = NoOwner
         /\ lock'[k] \in Callers
         /\ pc[lock'[k]] = "acquire" /\ pc'[lock'[k]] = "dbl"
         /\ ckey[lock'[k]] = k
      \/ /\ lock[k] \in Callers
         /\ lock'[k] = NoOwner
         /\ \/ pc[lock[k]] = "release" /\ pc'[lock[k]] = "done"
            \/ pc' = pc /\ hist'[lock[k]].lost

C5_Held ==
  \A k \in Keys :
    lock[k] # NoOwner =>
      /\ lock[k] \in Callers
      /\ ckey[lock[k]] = k
      /\ InSection(lock[k])
      /\ hist[lock[k]].acq = 1

\* C5: the lock store holds at most one owner per key; acquireLock succeeds
\* exactly when the key has no lock and otherwise leaves the holder
\* unchanged; a lock appears only by a successful acquire and disappears only
\* by the holder's release or the end of its lease; a held lock is
\* eventually free again.
C5_LockLifetime ==
  /\ [][C5_AcquireStep /\ C5_Lifecycle]_vars
  /\ []C5_Held
  /\ \A k \in Keys : (lock[k] # NoOwner) ~> (lock[k] = NoOwner)

C5_Witness ==
  \E c, d \in Callers :
    /\ c # d /\ lock[ckey[c]] = c /\ ckey[d] = ckey[c]
    /\ pc[d] = "retry" /\ attempts[d] >= 1

C6_FallbackStep ==
  \A c \in Callers :
    (pc[c] = "fallback" /\ pc'[c] = "done") =>
      /\ result'[c] = Fetcher(ckey[c])
      /\ cache' = cache
      /\ lock' = lock

\* C6: a call that failed all LOCK_MAX_RETRIES attempts and missed at every
\* cache read returns what a direct fetcher() call yields; it writes no
\* cache entry and neither creates nor deletes a lock.
C6_FallbackFrame ==
  /\ [][C6_FallbackStep]_vars
  /\ [](\A c \in Callers :
          hist[c].fetchFB > 0 =>
            /\ hist[c].wrote = 0
            /\ hist[c].lockops = 0)

C6_Witness ==
  \E c \in Callers :
    /\ pc[c] = "done" /\ hist[c].fetchFB = 1
    /\ result[c] # <<>>
    /\ ~cache[ckey[c]].present

\* C7 (as claimed): a read that begins after recalcFor<subject> returned
\* yields only rows upserted by that run or later.
C7_ReadAfterRecalcIsFresh ==
  \A c \in Callers :
    (pc[c] = "done" /\ hist[c].need > 0) =>
      \A i \in 1..Len(result[c]) : result[c][i].ver >= hist[c].need

\* the summary e is of a pair that a run of direction d upserts
Rewrites(d, e) ==
  IF d = "worker"
    THEN e.workerId = SubjectId /\ e.vacancyId \in Range(vacancies)
    ELSE e.vacancyId = SubjectId /\ e.workerId \in Range(workers)

\* the entry of k was cached before the run of d began, is still cached and
\* lists a pair that the run upserted
HoldsOldList(k, d, c) ==
  /\ c[k].present
  /\ c[k] = rsnap[d][k]
  /\ \E i \in 1..Len(c[k].list) :
       Rewrites(d, c[k].list[i]) /\ c[k].list[i].ver < rgen[d]

C8_CompletionStep ==
  \A d \in Dirs :
    (rpc[d] = "finish" /\ rpc'[d] = "done" /\ rtotal[d] > 0) =>
      \A k \in Keys : ~HoldsOldList(k, d, cache')

\* C8 (as claimed): when a recalculation completes, no key of a subject
\* whose rows it rewrote still holds a list cached before it.
C8_AllAffectedKeysDeleted == [][C8_CompletionStep]_vars

PagesOf(n) == n \div BATCH_SIZE + 1
CeilDiv(n, m) == (n + m - 1) \div m
Running(d) == rpc[d] \in {"check", "page", "batch", "finish"}

C9_Counts ==
  \A d \in Dirs :
    /\ Len(rreq[d]) <= PagesOf(Len(Population(d)))
    /\ rpage[d] <= PagesOf(Len(Population(d)))
    /\ rpc[d] = "done" => rtotal[d] = Len(Population(d))

C10_PageSequence ==
  \A d \in Dirs :
    LET n == Len(Population(d))
        q == rreq[d]
    IN /\ \A i \in 1..Len(q) :
            /\ q[i].page = i
            /\ q[i].size = Min(BATCH_SIZE, Max(0, n - (i - 1) * BATCH_SIZE))
            /\ i < Len(q) => q[i].size = BATCH_SIZE
       /\ rpc[d] \in {"finish", "done"} =>
            /\ Len(q) >= 1
            /\ q[Len(q)].size < BATCH_SIZE
            /\ rbatch[d] = CeilDiv(n, BATCH_SIZE)
       /\ (rpc[d] = "done" /\ n = 450) =>
            /\ [i \in 1..Len(q) |-> q[i].size] = <<200, 200, 50>>
            /\ rtotal[d] = 450

C10_Witness ==
  /\ rpc["vacancy"] = "done"
  /\ Len(workers) = 450
  /\ [i \in 1..Len(rreq["vacancy"]) |-> rreq["vacancy"][i].size]
       = <<200, 200, 50>>
  /\ rtotal["vacancy"] = 450
  /\ rbatch["vacancy"] = 3

\* a step of recalcFor<d> that starts upserts
StartsUpserts(d) == binfl'[d].n > 0 /\ binfl[d] # binfl'[d] /\ rpc[d] = "chunk"

C11_ChunkStep ==
  \A d \in Dirs :
    /\ StartsUpserts(d) => InFlight(d) = 0
    /\ ritems'[d] # ritems[d] => InFlight(d) = 0

C11_Bounded ==
  \A d \in Dirs :
    /\ InFlight(d) <= CONCURRENCY_LIMIT
    /\ rpc[d] \in {"page", "batch", "chunk", "finish"} => InFlight(d) = 0

\* C11: within one recalculation call at most CONCURRENCY_LIMIT (20) upserts
\* are in flight at any instant; the upserts of a chunk are started, and the
\* next page is fetched, only when no upsert of the call is in flight, so
\* chunks and pages are processed one after another.
C11_ChunksInSequence == []C11_Bounded /\ [][C11_ChunkStep]_vars

\* a full chunk is in flight that is not the first chunk of its page, on a
\* page that is not the first
C11_Witness ==
  \E d \in Dirs :
    /\ InFlight(d) = CONCURRENCY_LIMIT
    /\ boff[d] > CONCURRENCY_LIMIT
    /\ rpage[d] > 1
    /\ rpc[d] = "await"

\* C12 (as claimed): a recalculation call in which the upsert of a pair
\* failed is not ended by the failure; it completes, and its calculated
\* count leaves the failed pair out.
C12_PairFailureIsolated ==
  \A d \in Dirs :
    bfailed[d] => /\ rpc[d] # "aborted"
                  /\ rpc[d] = "done" => rtotal[d] < Len(Population(d))

\* C13 (as claimed): no call of getOrSet*Cache ends with the error of a
\* failed store command; a call that met one returns a list.
C13_StoreErrorIsMiss ==
  \A c \in Callers : pc[c] \notin {"unwind", "threw"}

\* a step of calculateScore(1, 1)
CalculateScoreStep == clock' = clock + 1 /\ rpc' = rpc

\* C14 (as claimed): calculateScore ends with the not-found error whenever
\* the vacancy or the worker does not exist, and then writes no MatchScore
\* row and no audit event.
C14_NotFoundWhenMissing ==
  [][CalculateScoreStep /\ (~vacancyExists \/ ~workerExists)
       => /\ cres' = "not_found"
          /\ rows' = rows /\ stored' = stored /\ audit' = audit]_vars

C15_RowIsLastUpsert == rows = lastUp

C15_UpsertStep ==
  \A p \in DOMAIN rows :
    /\ rows[p] > 0 => rows'[p] > 0
    /\ rows'[p] # rows[p] =>
         \A q \in DOMAIN rows \ {p} : rows'[q] = rows[q]

\* C15: the MatchScore rows are keyed by the pair (workerId, vacancyId); the
\* row of a pair holds what the upsert of the pair that completed last wrote,
\* no step deletes a row, and a step that writes the row of one pair leaves
\* the rows of all other pairs as they are.
C15_LastWriteWins == []C15_RowIsLastUpsert /\ [][C15_UpsertStep]_vars

\* an upsert of pair (1, 1) started by the later call completed before the
\* one started by the earlier call: the row holds the earlier call's content
C15_Witness ==
  /\ rows[<<1, 1>>] = 1
  /\ rows[<<1, 2>>] = 2
  /\ audit = 0
  /\ \A d \in Dirs : rpc[d] = "done" /\ ~bfailed[d]

ClosedExperience ==
  \A i \in 1..Len(WorkerData.experience) :
    WorkerData.experience[i].endYear # 0

TotalIsWeightedSum(sc) ==
  LET t == sc.totalScore
      x == RatAdd[RatTimes[sc.skillScore, 40],
           RatAdd[RatTimes[sc.experienceScore, 25],
           RatAdd[RatTimes[sc.educationScore, 15],
           RatAdd[RatTimes[sc.locationScore, 10],
                  RatTimes[sc.salaryScore, 10]]]]]
      hundredths == RatTimes[t, 100]
  IN /\ hundredths.d = 1
     /\ 2 * hundredths.n * x.d <= 2 * x.n + x.d
     /\ 2 * x.n + x.d < 2 * (hundredths.n + 1) * x.d

\* C20: on the single-pair path and on the batch path the stored totalScore
\* is 0.40 * skill + 0.25 * experience + 0.15 * education + 0.10 * location
\* + 0.10 * salary of the sub-scores stored with it, rounded to 2 decimals.
C20_TotalIsWeightedSum ==
  /\ stored # NoScore => TotalIsWeightedSum(stored)
  /\ first # NoScore => TotalIsWeightedSum(first.score)

\* the single-pair path wrote a total that needed rounding, and the batch
\* path has rewritten the row with other components
C20_Witness ==
  /\ first # NoScore
  /\ first.score.experienceScore.d > 1
  /\ RatTimes[first.score.totalScore, 10].d > 1
  /\ stored # first.score
  /\ now = first.year
  /\ \E d \in Dirs : rpc[d] = "done"

\* the positions of list m taken into list l, in the order of l
IsTopOf(l, m) ==
  /\ Len(l) = Min(Len(m), CACHE_LIMIT)
  /\ \A i \in 1..Len(l) : \E j \in 1..Len(m) : l[i] = m[j]
  /\ \A i, j \in 1..Len(l) : i # j => l[i] # l[j]
  /\ \A j \in 1..Len(m) :
       (\A i \in 1..Len(l) : l[i] # m[j]) =>
         \A i \in 1..Len(l) : l[i].totalScore >= m[j].totalScore

\* C16: every cache entry written by setWorkerMatches / setVacancyMatches
\* holds at most CACHE_LIMIT (50) records in non-increasing order of
\* totalScore, and they are the highest-scoring records of the list passed in.
C16_TopFiftySorted ==
  \A k \in Keys :
    cache[k].present =>
      /\ Len(cache[k].list) <= CACHE_LIMIT
      /\ \A i \in 1..(Len(cache[k].list) - 1) :
           cache[k].list[i].totalScore >= cache[k].list[i + 1].totalScore
      /\ IsTopOf(cache[k].list, sinput)

\* a list of more than CACHE_LIMIT records in rising order was written
C16_Witness ==
  \E k \in Keys :
    /\ cache[k].present
    /\ Len(sinput) > CACHE_LIMIT
    /\ sinput[1].totalScore < sinput[2].totalScore
    /\ Len(cache[k].list) = CACHE_LIMIT

\* ids of the jobs of subject d that are waiting, delayed or active
UnfinishedOf(d) ==
  {id \in JobIds : Unfinished(id) /\ jobs[id].name = d}

C17_OnePerKey ==
  \A d \in Dirs :
    /\ Cardinality(UnfinishedOf(d)) <= 1
    /\ Cardinality(UnfinishedOf(d) \cap ActiveJobs) <= 1

C17_AddStep ==
  \A c \in Callers :
    /\ (apc[c] \in {"status", "add"} /\ apc'[c] # apc[c]
        /\ UnfinishedOf(akind[c]) # {}) => jobs' = jobs
    /\ (apc[c] # "done" /\ apc'[c] = "done") =>
         ares'[c] = <<akind[c], SubjectId>>

\* C17: the queue holds at most one unfinished job per job key in every
\* interleaving of add calls, so no two jobs of a subject are active
\* together; an add call that finds an unfinished job of its key enqueues
\* nothing, and every add call returns the key.
C17_OneJobPerKey == []C17_OnePerKey /\ [][C17_AddStep]_vars

\* two add calls for one key both saw no job and both called queue.add:
\* one job is waiting
C17_Witness ==
  \E c1, c2 \in Callers :
    /\ c1 # c2
    /\ apc[c1] = "done" /\ apc[c2] = "done"
    /\ akind[c1] = akind[c2]
    /\ ~afound[c1] /\ ~afound[c2]
    /\ nadds = 2 /\ nqadd = 2
    /\ jobs[<<akind[c1], SubjectId>>].state = "waiting"
    /\ jobs[<<akind[c1], SubjectId>>].runs = 0

C18_Attempts ==
  \A id \in JobIds :
    jobs[id] # NoJob =>
      /\ jobs[id].runs <= MAX_RETRIES
      /\ jobs[id].attemptsMade <= jobs[id].runs
      /\ jobs[id].state = "failed" =>
           jobs[id].runs = MAX_RETRIES /\ jobs[id].attemptsMade = MAX_RETRIES
      /\ jobs[id].state = "delayed" =>
           /\ jobs[id].attemptsMade \in 1..(MAX_RETRIES - 1)
           /\ jobs[id].attemptsMade = 1 => jobs[id].delay = RETRY_DELAY
           /\ jobs[id].attemptsMade = 2 => jobs[id].delay = 2 * RETRY_DELAY

C18_FinishedStep ==
  \A id \in JobIds :
    jobs[id].state \in {"completed", "failed"} =>
      jobs'[id] = jobs[id] \/ jobs'[id] = NoJob

\* C18: a job is run at most MAX_RETRIES (3) times; after its first failure
\* it waits RETRY_DELAY (5000 ms), after its second twice that; after the
\* third failure it is failed; a failed or completed job is never run again.
C18_BoundedRetries == []C18_Attempts /\ [][C18_FinishedStep]_vars

\* a job failed after three runs, and a later add call for its key made
\* queue.add and got the key back
C18_Witness ==
  \E id \in JobIds, c \in Callers :
    /\ jobs[id].state = "failed"
    /\ jobs[id].runs = MAX_RETRIES
    /\ apc[c] = "done" /\ afound[c] /\ ares[c] = id
    /\ nqadd = 2

\* 0 <= x <= 100
InRange(x) == ~RatLess[x, Rat[0, 1]] /\ ~RatLess[Rat[100, 1], x]

\* C21 (as claimed): each of the five sub-scores and the total score of the
\* row written by calculateScore or by a recalculation lies in [0, 100].
C21_ScoresInRange ==
  stored # NoScore =>
    /\ InRange(stored.skillScore)
    /\ InRange(stored.experienceScore)
    /\ InRange(stored.educationScore)
    /\ InRange(stored.locationScore)
    /\ InRange(stored.salaryScore)
    /\ InRange(stored.totalScore)

\* C22 (as claimed): calculateScore writes the experience score 50 when the
\* vacancy declares neither min nor max years, 100 when the worker's total
\* years t lie within [min, max], and max(0, 100 - 100 * (min - t) / min)
\* when t < min.
C22_ExperienceScore ==
  [][CalculateScoreStep /\ cres' = "ok" =>
       LET t == TotalYears(WorkerData.experience, now)
           minYears == vdata.experienceMinYears
           maxYears == vdata.experienceMaxYears
           score == stored'.experienceScore
       IN /\ (minYears = 0 /\ maxYears = 0) => score = Rat[50, 1]
          /\ (maxYears # 0 /\ t >= minYears /\ t <= maxYears) =>
               score = Rat[100, 1]
          /\ (minYears # 0 /\ t < minYears) =>
               score = RatMax[Rat[0, 1],
                              Rat[100 * minYears - 100 * (minYears - t),
                                  minYears]]]_vars

\* the step of a recalculation that upserts the row of pair (1, 1)
BatchScoreStep ==
  \E d \in Dirs :
    /\ rpc[d] = "batch" /\ rpc'[d] # "batch"
    /\ SubjectId \in BatchFound(d, ritems[d])

AtLeastThreshold(sc) == ~RatLess[sc.totalScore, Rat[70, 1]]

\* worker skill records whose code is a required skill of the vacancy
MatchedRequired ==
  Cardinality({i \in 1..Len(WorkerData.skills) :
                 WorkerData.skills[i] \in vdata.required})

C23_NeverBelowThreshold ==
  (stored # NoScore /\ stored.isRecommended) => AtLeastThreshold(stored)

C23_FlagStep ==
  /\ (CalculateScoreStep /\ cres' = "ok") =>
       stored'.isRecommended = AtLeastThreshold(stored')
  /\ BatchScoreStep =>
       stored'.isRecommended =
         (/\ AtLeastThreshold(stored')
          /\ 2 * MatchedRequired >= Cardinality(vdata.required))

\* C23: calculateScore writes isRecommended = (totalScore >= 70); a
\* recalculation writes isRecommended = (totalScore >= 70 and the matched
\* required skills are at least half of the required skills); no row is
\* recommended with a total score below 70.
C23_RecommendedFlag == []C23_NeverBelowThreshold /\ [][C23_FlagStep]_vars

\* a recalculation wrote a row of total score >= 70 that is not recommended,
\* for want of required skills
C23_Witness ==
  /\ audit = 0 /\ stored # NoScore
  /\ \E d \in Dirs : rpc[d] = "done"
  /\ AtLeastThreshold(stored)
  /\ ~stored.isRecommended

C24_SectionStep ==
  \A c \in Callers :
    /\ (pc[c] = "acquire" /\ pc'[c] # "acquire") =>
         /\ pc'[c] = (IF lock[ckey[c]] = NoOwner THEN "dbl" ELSE "retry")
         /\ cache' = cache
         /\ hist'[c].fetchL = hist[c].fetchL
    /\ (pc[c] = "dbl" /\ pc'[c] # "dbl") =>
         IF cache[ckey[c]].present
           THEN /\ pc'[c] = "release"
                /\ result'[c] = cache[ckey[c]].list
                /\ cache' = cache
                /\ hist'[c].fetchL = hist[c].fetchL
                /\ hist'[c].wrote = hist[c].wrote
           ELSE pc'[c] = "fetch"
    /\ (pc[c] = "release" /\ pc'[c] # "release") =>
         /\ pc'[c] = "done"
         /\ cache' = cache
         /\ result'[c] = result[c]
         /\ hist'[c].fetchL = hist[c].fetchL
         /\ hist'[c].wrote = hist[c].wrote
    /\ (pc'[c] = "fetch" /\ pc[c] # "fetch") =>
         pc[c] = "dbl" /\ ~cache[ckey[c]].present
    /\ hist'[c].fetchL # hist[c].fetchL => pc[c] = "fetch"

\* C24: a caller that acquired the lock reads the cache again before
\* anything else; on an entry it returns that entry, the fetcher not invoked
\* and the cache not written; it invokes the fetcher under the lock only
\* when that read found no entry.
C24_DoubleCheck == [][C24_SectionStep]_vars

\* a call returned the entry its second read found: one acquisition, one
\* hit, no fetcher run, no write
C24_Witness ==
  \E c \in Callers :
    /\ pc[c] = "done"
    /\ hist[c].acq = 1 /\ hist[c].hits = 1
    /\ Fetches(c) = 0 /\ hist[c].wrote = 0
    /\ result[c] # <<>>
    /\ cache[ckey[c]].present /\ result[c] = cache[ckey[c]].list

\* what the release script of caller c leaves of the lock store
ReleasedBy(c) ==
  IF lock[ckey[c]] = c THEN [lock EXCEPT ![ckey[c]] = NoOwner] ELSE lock

C25_ExitStep ==
  \A c \in Callers :
    /\ (pc[c] \in {"dbl", "fetch", "set", "release", "unwind"}
        /\ pc'[c] \in {"done", "threw"}) =>
         /\ pc[c] \in {"release", "unwind"}
         /\ lock' = ReleasedBy(c)
    /\ (pc[c] = "set" /\ pc'[c] = "release") =>
         /\ lock' = lock
         /\ matches[c] # <<>> => cache'[ckey[c]].present
    /\ hist'[c].wrote # hist[c].wrote => pc[c] = "set" /\ pc'[c] = "release"

C25_NoneHeld ==
  /\ \A c \in Callers : pc[c] \in {"done", "threw"} => lock[ckey[c]] # c
  /\ (\A c \in Callers : pc[c] \in {"done", "threw"}) =>
       \A k \in Keys : lock[k] = NoOwner

C26_Attempts ==
  \A c \in Callers :
    /\ attempts[c] <= LOCK_MAX_RETRIES
    /\ pc[c] \in {"acquire", "dbl", "fetch", "set", "release", "retry"} =>
         attempts[c] + 1 <= LOCK_MAX_RETRIES
    /\ pc[c] = "fallback" => attempts[c] = LOCK_MAX_RETRIES

C26_AttemptStep ==
  \A c \in Callers :
    /\ (pc[c] = "acquire" /\ pc'[c] # "acquire") =>
         /\ pc'[c] = (IF lock[ckey[c]] = NoOwner THEN "dbl" ELSE "retry")
         /\ attempts'[c] = attempts[c]
    /\ (pc[c] = "retry" /\ pc'[c] # "retry") =>
         IF cache[ckey[c]].present
           THEN pc'[c] = "done" /\ result'[c] = cache[ckey[c]].list
           ELSE /\ attempts'[c] = attempts[c] + 1
                /\ pc'[c] = (IF attempts[c] + 1 < LOCK_MAX_RETRIES
                               THEN "acquire" ELSE "fallback")
    /\ (pc[c] = "fallback" /\ pc'[c] # "fallback") =>
         pc'[c] = "done" /\ result'[c] = Fetcher(ckey[c])
    /\ (pc[c] # "done" /\ pc'[c] = "done") =>
         pc[c] \in {"get", "retry", "release", "fallback"}

\* C26: a getOrSet call makes at most LOCK_MAX_RETRIES (5) acquireLock
\* attempts, a failed attempt being followed by the backoff and one cache
\* re-check; the call whose steps run on returns, whatever the other
\* callers and the holder of the lock do.
C26_BoundedRetryReturns ==
  /\ []C26_Attempts
  /\ [][C26_AttemptStep]_vars
  /\ <>(pc[1] = "done")

\* caller 1 returned the result of its fallback fetcher while the lock is
\* still held by another owner
C26_Witness ==
  /\ pc[1] = "done"
  /\ hist[1].fetchFB = 1 /\ hist[1].acq = 0
  /\ lock[ckey[1]] \in Callers \ {1}
  /\ result[1] # <<>>

C27_NoEmptyEntry ==
  /\ \A k \in Keys : cache[k].present => cache[k].list # <<>>
  /\ \A c \in Callers :
       (pc[c] = "done" /\ result[c] = <<>>) => Fetches(c) = 1

C27_EmptyWriteStep ==
  \A c \in Callers :
    (pc[c] = "set" /\ pc'[c] # "set" /\ matches[c] = <<>>) =>
      /\ cache' = cache
      /\ hist'[c].wrote = hist[c].wrote
      /\ result'[c] = <<>>

\* C27: setWorkerMatches / setVacancyMatches with an empty list writes
\* nothing and leaves the entry as it is; no entry ever holds an empty list,
\* so a call that returns an empty list has run its fetcher, and so does
\* every later call while the fetcher returns an empty list.
C27_EmptyNeverCached == []C27_NoEmptyEntry /\ [][C27_EmptyWriteStep]_vars

\* two calls for one key, one after the other under the lock, each ran the
\* fetcher and returned its empty list; the key is absent
C27_Witness ==
  \E c, d \in Callers :
    /\ c # d
    /\ pc[c] = "done" /\ pc[d] = "done"
    /\ result[c] = <<>> /\ result[d] = <<>>
    /\ hist[c].fetchL = 1 /\ hist[d].fetchL = 1
    /\ hist[c].wrote = 0 /\ hist[d].wrote = 0
    /\ ~cache[ckey[c]].present
    /\ ~keyhist[ckey[c]]
    /\ \A e \in Callers : ~hist[e].lost

C28_DeletedOnCompletionOnly ==
  \A k \in Keys :
    cache'[k] # cache[k] =>
      /\ ~cache'[k].present
      /\ \E d \in Dirs :
           /\ k = KeyOf(d)
           /\ rpc[d] = "finish" /\ rpc'[d] = "done"
           /\ ~bfailed[d]
           /\ d = "vacancy" => vacancyExists
           /\ rreq[d] # <<>>
           /\ rreq[d][Len(rreq[d])].size < BATCH_SIZE

C28_RejectStep ==
  \A d \in Dirs :
    /\ (rpc'[d] \in {"aborted", "rejected"} /\ rpc'[d] # rpc[d]) =>
         cache' = cache /\ rows' = rows
    /\ rpc[d] \in {"aborted", "rejected"} =>
         /\ rpc'[d] \in {rpc[d], "check", "page"}
         /\ cache'[KeyOf(d)] = cache[KeyOf(d)]
    /\ \A p \in DOMAIN rows :
         rows'[p] # rows[p] =>
           \E e \in Dirs : /\ rpc[e] \in {"await", "aborted"}
                           /\ rows'[p] = binfl[e].ver
                           /\ rows'[p] > 0

\* C28: when an upsert of a recalculation throws, or recalcForVacancy finds
\* no vacancy, the call ends with the error and deletes no cache key; the
\* rows it has upserted stay as written; a cache key is deleted only by the
\* call of its subject that fetched all its pages.
C28_NoInvalidationOnReject ==
  [][C28_DeletedOnCompletionOnly /\ C28_RejectStep]_vars

\* recalcForWorker ended with the error of an upsert of its second chunk
\* after it wrote rows; its cache key is still there
C28_Witness ==
  /\ rpc["worker"] = "aborted"
  /\ boff["worker"] > CONCURRENCY_LIMIT
  /\ rows[<<SubjectId, SubjectId>>] = rgen["worker"]
  /\ rgen["worker"] = 2
  /\ rpc["vacancy"] = "done"
  /\ cache["worker:1"].present
  /\ ~cache["vacancy:1"].present

\* C29 (as claimed): an addRecalc*Job call whose queue.add is made while the
\* previous job of its key is completed or failed enqueues a new waiting job
\* under that key.
C29_ReAddEnqueues ==
  [][\A c \in Callers :
       (apc[c] = "add" /\ apc'[c] = "done"
        /\ jobs[JobIdFor(akind[c])].state \in {"completed", "failed"}) =>
         /\ jobs'[JobIdFor(akind[c])].state = "waiting"
         /\ jobs'[JobIdFor(akind[c])].runs = 0]_vars

\* how often id i occurs in the pages a run fetched
TimesSeen(d, i) == Cardinality({j \in 1..Len(rseen[d]) : rseen[d][j] = i})

\* C30 (as claimed): once the paging loop of recalcForWorker /
\* recalcForVacancy has ended, every vacancy (worker profile) that was OPEN
\* (ACTIVE) during the whole call was in exactly one of the pages it scored,
\* whatever other actors opened, closed or deleted meanwhile.
C30_OpenScoredOnce ==
  \A d \in Dirs : rpc[d] \in {"finish", "done"} =>
    \A i \in ropen[d] : TimesSeen(d, i) = 1
====
